---- MODULE Spec2Model ----
(***************************************************************************)
(* A model of the code chunker of code-navigator                           *)
(* (src/webhook-solution/src/code_splitter): split_code and the three      *)
(* chunking modes behind it.  A file is a sequence of one-character        *)
(* strings (ASCII: one byte per character) and a syntax tree is a sequence *)
(* of node records in source order, each naming its parent.                *)
(***************************************************************************)
EXTENDS Integers, Sequences, FiniteSets, TLC

\* ------------------------------------------------------------------ bounds
\* Longest generated source (bytes) for the generated syntax trees.
MaxLen == 5

\* ------------------------------------------------------------ small helpers
Max(a, b) == IF a > b THEN a ELSE b
Min(a, b) == IF a < b THEN a ELSE b
Last(s) == s[Len(s)]

RECURSIVE Concat(_)
\* "".join(parts) for a sequence of character sequences
Concat(parts) == IF parts = <<>> THEN <<>> ELSE Head(parts) \o Concat(Tail(parts))

\* Python's s[a:b] for 0 <= a (0-based, half-open, clamped to the string)
Slice(s, a, b) == SubSeq(s, a + 1, Min(b, Len(s)))

\* The characters re's \s and str.isspace() treat as whitespace (of the alphabet used here)
WhitespaceChars == {" ", "\t", "\n"}

\* utils.non_whitespace_len: len(re.sub(r"\s", "", s))
non_whitespace_len(s) == Cardinality({i \in DOMAIN s : s[i] \notin WhitespaceChars})

\* str.count('\n')
count_newlines(s) == Cardinality({i \in DOMAIN s : s[i] = "\n"})

\* str.strip() == "" : the string holds only whitespace
IsBlank(s) == \A i \in DOMAIN s : s[i] \in WhitespaceChars

\* str.splitlines(keepends=True), the only line terminator of the alphabet being
\* "\n": a line ends at each newline and at the last character
splitlines_keepends(s) ==
    LET line_ends == {i \in DOMAIN s : s[i] = "\n" \/ i = Len(s)}
        end_of(j) == CHOOSE e \in line_ends : Cardinality({x \in line_ends : x <= e}) = j
    IN [j \in 1..Cardinality(line_ends) |->
          SubSeq(s, IF j = 1 THEN 1 ELSE end_of(j - 1) + 1, end_of(j))]

\* str.splitlines(): the lines without their terminators
splitlines(s) ==
    LET ls == splitlines_keepends(s)
    IN [i \in DOMAIN ls |->
          IF Last(ls[i]) = "\n" THEN SubSeq(ls[i], 1, Len(ls[i]) - 1) ELSE ls[i]]

RECURSIVE line_scan(_,_,_,_)
\* the for loop of get_line_number: the first line whose cumulative end exceeds index
line_scan(lines, index, line_number, total_bytes) ==
    IF line_number >= Len(lines) THEN -1
    ELSE LET total == total_bytes + Len(lines[line_number + 1])
         IN IF total > index THEN line_number
            ELSE line_scan(lines, index, line_number + 1, total)

\* utils.get_line_number: byte index -> 0-based line number
get_line_number(index, source_code) ==
    LET lines == splitlines_keepends(source_code)
        found == line_scan(lines, index, 0, 0)
    IN IF found # -1 THEN found ELSE Max(0, Len(lines) - 1)

\* -------------------------------------------------------------------- Span
\* span.Span with __post_init__: end = max(start, end)
Span(s, e) == [start |-> s, end |-> Max(s, e)]

\* Span.__len__
SpanLen(sp) == sp.end - sp.start

\* Span.__add__
SpanAdd(a, b) == Span(Min(a.start, b.start), Max(a.end, b.end))

\* Span.extract_bytes
extract_bytes(sp, code_bytes) ==
    LET start_byte == Max(0, Min(sp.start, Len(code_bytes)))
        end_byte == Max(start_byte, Min(sp.end, Len(code_bytes)))
    IN Slice(code_bytes, start_byte, end_byte)

\* ------------------------------------------------------------ syntax trees
\* A tree is a sequence of nodes; node 1 is the root; siblings appear in
\* source order.  A node record: type, start_byte, end_byte, parent (0 for
\* the root), field (the field name it has in its parent, "" if none),
\* named (FALSE for anonymous tokens).
Node(type, s, e, parent, fld, named) ==
    [type |-> type, start_byte |-> s, end_byte |-> e, parent |-> parent,
     field |-> fld, named |-> named]

\* node.children, as node ids in source order
Children(tree, n) ==
    SelectSeq([i \in 1..Len(tree) |-> i], LAMBDA i : tree[i].parent = n)

RootId == 1

\* -------------------------------------------- byte_span_creation.py, step 1
RECURSIVE chunk_tree_recursive(_,_,_)
RECURSIVE chunk_children(_,_,_,_,_)

\* finalize the accumulator if it has content (the two "if current_chunk_end >
\* current_chunk_start: chunks.append(...)" of _chunk_tree_recursive)
FlushChunk(chunks, cs, ce) ==
    IF ce > cs THEN Append(chunks, Span(cs, ce)) ELSE chunks

\* the body of "for child in node.children", from child kids[i] on;
\* st = [chunks, cs (current_chunk_start), ce (current_chunk_end)]
chunk_children(tree, kids, i, st, MAX_CHARS) ==
    IF i > Len(kids) THEN st
    ELSE
      LET child == tree[kids[i]]
          child_len == child.end_byte - child.start_byte
          next ==
            IF child_len = 0 THEN st
            ELSE IF child_len > MAX_CHARS THEN
              [chunks |-> FlushChunk(st.chunks, st.cs, st.ce)
                             \o chunk_tree_recursive(tree, kids[i], MAX_CHARS),
               cs |-> child.end_byte, ce |-> child.end_byte]
            ELSE IF child.end_byte - st.cs > MAX_CHARS THEN
              [chunks |-> FlushChunk(st.chunks, st.cs, st.ce),
               cs |-> child.start_byte, ce |-> child.end_byte]
            ELSE
              [chunks |-> st.chunks,
               cs |-> IF st.ce = st.cs THEN child.start_byte ELSE st.cs,
               ce |-> Max(st.ce, child.end_byte)]
      IN chunk_children(tree, kids, i + 1, next, MAX_CHARS)

\* a faulty tail: the final chunk starts where the first chunk started, so it
\* overlaps what was already emitted (C3 must reject it)
FinalChunkOverlapping(chunks, cs, node_end) ==
    IF node_end > cs
    THEN Append(chunks, Span(IF chunks = <<>> THEN cs ELSE chunks[1].start, node_end))
    ELSE chunks

\* the tail of _chunk_tree_recursive: the final chunk up to the node's end
FinalChunk(chunks, cs, node_end) ==
    IF node_end > cs THEN
      IF chunks = <<>> \/ Last(chunks).end <= cs
      THEN Append(chunks, Span(cs, node_end))
      ELSE LET adjusted_start == Max(cs, Last(chunks).end)
           IN IF node_end > adjusted_start
              THEN Append(chunks, Span(adjusted_start, node_end))
              ELSE chunks
    ELSE chunks

\* _chunk_tree_recursive(node, source_code_bytes, MAX_CHARS)
chunk_tree_recursive(tree, n, MAX_CHARS) ==
    LET node == tree[n]
        st == chunk_children(tree, Children(tree, n), 1,
                             [chunks |-> <<>>, cs |-> node.start_byte,
                              ce |-> node.start_byte], MAX_CHARS)
    IN FinalChunk(st.chunks, st.cs, node.end_byte)

\* -------------------------------------------- byte_span_creation.py, step 2
RECURSIVE fill_gaps(_,_,_,_)
\* the gap-fill loop of create_byte_spans over byte_chunks[i..]
fill_gaps(byte_chunks, i, filled, current_pos) ==
    IF i > Len(byte_chunks) THEN [filled |-> filled, current_pos |-> current_pos]
    ELSE
      LET chunk == byte_chunks[i]
          withGap == IF chunk.start > current_pos
                     THEN Append(filled, Span(current_pos, chunk.start))
                     ELSE filled
          safe_start == Max(current_pos, chunk.start)
      IN IF chunk.end > safe_start
         THEN fill_gaps(byte_chunks, i + 1,
                        Append(withGap, Span(safe_start, chunk.end)), chunk.end)
         ELSE IF chunk.end = safe_start /\ chunk.start = chunk.end
         THEN fill_gaps(byte_chunks, i + 1, withGap, chunk.end)
         ELSE fill_gaps(byte_chunks, i + 1, withGap, current_pos)

\* a faulty step 2 that fills no gap (C2 must reject it)
unfilled_chunks_of(byte_chunks, root) == byte_chunks

\* a faulty step 2 that starts at the first span instead of the start of the
\* root (C24 must reject it)
filled_chunks_from_first_span(byte_chunks, root) ==
    LET r == fill_gaps(byte_chunks, 1, <<>>, byte_chunks[1].start)
    IN IF root.end_byte > r.current_pos
       THEN Append(r.filled, Span(r.current_pos, root.end_byte))
       ELSE r.filled

\* step 2 of create_byte_spans, with the remaining gap at the end of the root
filled_chunks_of(byte_chunks, root) ==
    LET r == fill_gaps(byte_chunks, 1, <<>>, root.start_byte)
        withTail == IF root.end_byte > r.current_pos
                    THEN Append(r.filled, Span(r.current_pos, root.end_byte))
                    ELSE r.filled
    IN IF withTail = <<>> /\ root.end_byte > root.start_byte
       THEN <<Span(root.start_byte, root.end_byte)>>
       ELSE withTail

\* -------------------------------------------- byte_span_creation.py, step 3
\* a faulty should_combine without the newline condition (C25 must reject it)
should_combine_without_newlines(current_chunk, next_chunk, code_bytes, MAX_CHARS, coalesce) ==
    /\ non_whitespace_len(extract_bytes(current_chunk, code_bytes)) < coalesce
    /\ 2 * (SpanLen(current_chunk) + SpanLen(next_chunk)) < 3 * MAX_CHARS

\* should_combine of the coalescing loop (the comparisons with 1.5 * MAX_CHARS
\* and coalesce / 2 are taken over the integers: 2 * x < 3 * MAX_CHARS, 2 * x < coalesce)
should_combine(current_chunk, next_chunk, code_bytes, MAX_CHARS, coalesce) ==
    LET current_text == extract_bytes(current_chunk, code_bytes)
        current_non_ws == non_whitespace_len(current_text)
        combined_byte_len == SpanLen(current_chunk) + SpanLen(next_chunk)
        combined_text == extract_bytes(SpanAdd(current_chunk, next_chunk), code_bytes)
    IN /\ current_non_ws < coalesce
       /\ 2 * combined_byte_len < 3 * MAX_CHARS
       /\ \/ count_newlines(combined_text) - count_newlines(current_text) < 3
          \/ 2 * current_non_ws < coalesce

RECURSIVE coalesce_loop(_,_,_,_,_,_,_)
\* "for next_chunk in filled_chunks[1:]" with the final append of current_chunk
coalesce_loop(filled, i, current_chunk, coalesced, code_bytes, MAX_CHARS, coalesce) ==
    IF i > Len(filled) THEN Append(coalesced, current_chunk)
    ELSE IF should_combine(current_chunk, filled[i], code_bytes, MAX_CHARS, coalesce)
    THEN coalesce_loop(filled, i + 1, SpanAdd(current_chunk, filled[i]), coalesced,
                       code_bytes, MAX_CHARS, coalesce)
    ELSE coalesce_loop(filled, i + 1, filled[i], Append(coalesced, current_chunk),
                       code_bytes, MAX_CHARS, coalesce)

\* step 3 of create_byte_spans
coalesced_chunks_of(filled, code_bytes, MAX_CHARS, coalesce) ==
    IF filled = <<>> THEN <<>>
    ELSE coalesce_loop(filled, 2, filled[1], <<>>, code_bytes, MAX_CHARS, coalesce)

\* the final filter of create_byte_spans: keep a span that is non-empty and has
\* a non-whitespace character
KeepSpan(chunk, code_bytes) ==
    SpanLen(chunk) > 0 /\ non_whitespace_len(extract_bytes(chunk, code_bytes)) > 0

final_chunks_of(coalesced, code_bytes) ==
    SelectSeq(coalesced, LAMBDA chunk : KeepSpan(chunk, code_bytes))

\* --------------------------------------------------- tree_sitter.Node API
\* The parser library is not part of the repository; the operators below
\* follow the behaviour of the Node methods the code calls.
Parent(tree, n) == tree[n].parent

\* node.child_by_field_name(name): the first child with that field; 0 for None
child_by_field_name(tree, n, name) ==
    LET kids == Children(tree, n)
        hits == {i \in DOMAIN kids : tree[kids[i]].field = name}
    IN IF hits = {} THEN 0 ELSE kids[CHOOSE i \in hits : \A j \in hits : i <= j]

\* node.named_children
named_children(tree, n) == SelectSeq(Children(tree, n), LAMBDA c : tree[c].named)

\* get_node_text / node.text
get_node_text(tree, n, code_bytes) == Slice(code_bytes, tree[n].start_byte, tree[n].end_byte)

RECURSIVE descendant_for_byte_range(_,_,_,_)
\* node.descendant_for_byte_range(a, b): descend into the first child whose end
\* reaches b and exceeds a, as long as that child starts at or before a
descendant_for_byte_range(tree, n, a, b) ==
    LET kids == Children(tree, n)
        cand == {i \in DOMAIN kids :
                   tree[kids[i]].end_byte >= b /\ tree[kids[i]].end_byte > a}
    IN IF cand = {} THEN n
       ELSE LET c == kids[CHOOSE i \in cand : \A j \in cand : i <= j]
            IN IF a < tree[c].start_byte THEN n
               ELSE descendant_for_byte_range(tree, c, a, b)

RECURSIVE Ancestors(_,_)
\* the proper ancestors of n, innermost first
Ancestors(tree, n) ==
    IF tree[n].parent = 0 THEN <<>> ELSE <<tree[n].parent>> \o Ancestors(tree, tree[n].parent)

SeqToSet(s) == {s[i] : i \in DOMAIN s}

\* n is d or an ancestor of d
IsAncestorOrSelf(tree, n, d) == n = d \/ n \in SeqToSet(Ancestors(tree, d))

Depth(tree, n) == Len(Ancestors(tree, n))

\* the node's byte range overlaps [s, e)
Overlaps(node, s, e) == node.start_byte < e /\ node.end_byte > s /\
                        Max(node.start_byte, s) < Min(node.end_byte, e)

\* ------------------------------------------------------ language_config.py
\* LANGUAGE_NODE_TYPES["python"] (the tree-sitter language of the corpus)
BASE_IDENTIFIER_TYPES ==
    {"identifier", "type_identifier", "field_identifier", "property_identifier",
     "variable_name", "method_name", "function_name", "class_name", "namespace_name"}

PythonConfig ==
    [imports |-> {"import_statement", "import_from_statement"},
     containers |-> {"class_definition", "function_definition"},
     identifier_types |-> BASE_IDENTIFIER_TYPES \cup {"dotted_name"},
     stop_at |-> {"module"},
     block_start |-> ":",
     has_parser |-> TRUE]

\* LANGUAGE_NODE_TYPES["php"]
PhpConfig ==
    [imports |-> {"use_declaration", "include_expression", "require_expression"},
     containers |-> {"class_declaration", "function_definition", "method_declaration",
                     "trait_declaration", "interface_declaration"},
     identifier_types |-> BASE_IDENTIFIER_TYPES \cup {"name", "variable_name", "property_name"},
     stop_at |-> {"program"},
     block_start |-> "{",
     has_parser |-> TRUE]

\* an entry without a parser: "Jupyter Notebook" (status notebook) and the
\* plaintext languages
NoParserConfig ==
    [imports |-> {}, containers |-> {}, identifier_types |-> {}, stop_at |-> {},
     block_start |-> "", has_parser |-> FALSE]

\* the languages of the registry that the model uses
RegisteredLanguages == {"python", "php", "Jupyter Notebook", "markdown"}

LANGUAGE_NODE_TYPES(language_name) ==
    CASE language_name = "python" -> PythonConfig
      [] language_name = "php" -> PhpConfig
      [] OTHER -> NoParserConfig

\* -------------------------------------------------- context_extraction.py
\* str.strip()
RECURSIVE lstrip_ws(_)
lstrip_ws(s) == IF s # <<>> /\ Head(s) \in WhitespaceChars THEN lstrip_ws(Tail(s)) ELSE s
RECURSIVE rstrip_ws(_)
rstrip_ws(s) ==
    IF s # <<>> /\ Last(s) \in WhitespaceChars THEN rstrip_ws(SubSeq(s, 1, Len(s) - 1)) ELSE s
strip(s) == lstrip_ws(rstrip_ws(s))

RECURSIVE JoinLines(_)
\* "\n".join(texts)
JoinLines(texts) ==
    IF texts = <<>> THEN <<>>
    ELSE IF Len(texts) = 1 THEN texts[1]
    ELSE texts[1] \o <<"\n">> \o JoinLines(Tail(texts))

\* the traversal of find_all_import_nodes does not descend below a container
\* that is neither the root nor an import type
TraversesChildren(tree, n, config) ==
    ~(tree[n].type \in config.containers /\ n # RootId /\ tree[n].type \notin config.imports)

\* the nodes the traversal of find_all_import_nodes visits
VisitedForImports(tree, config) ==
    {n \in DOMAIN tree :
        \A a \in SeqToSet(Ancestors(tree, n)) : TraversesChildren(tree, a, config)}

RECURSIVE SortNodes(_,_)
\* all_import_nodes.sort(key=start_byte): stable, so nodes of one start keep
\* their traversal order (breadth-first: shallower first, then source order)
SortNodes(tree, nodes) ==
    IF nodes = {} THEN <<>>
    ELSE LET Before(a, b) ==
               \/ tree[a].start_byte < tree[b].start_byte
               \/ /\ tree[a].start_byte = tree[b].start_byte
                  /\ \/ Depth(tree, a) < Depth(tree, b)
                     \/ Depth(tree, a) = Depth(tree, b) /\ a <= b
             first == CHOOSE a \in nodes : \A b \in nodes : Before(a, b)
         IN <<first>> \o SortNodes(tree, nodes \ {first})

RECURSIVE UniqueByText(_,_,_,_)
\* keep the first node of every distinct, non-empty stripped text
UniqueByText(tree, nodes, code_bytes, seen) ==
    IF nodes = <<>> THEN <<>>
    ELSE LET node_text == strip(get_node_text(tree, Head(nodes), code_bytes))
         IN IF node_text # <<>> /\ node_text \notin seen
            THEN <<Head(nodes)>> \o UniqueByText(tree, Tail(nodes), code_bytes, seen \cup {node_text})
            ELSE UniqueByText(tree, Tail(nodes), code_bytes, seen)

\* find_all_import_nodes: [nodes, lines]
find_all_import_nodes(tree, config, code_bytes) ==
    IF config.imports = {} THEN [nodes |-> <<>>, lines |-> <<>>]
    ELSE
      LET found == {n \in VisitedForImports(tree, config) : tree[n].type \in config.imports}
          final_import_nodes == UniqueByText(tree, SortNodes(tree, found), code_bytes, {})
          unique_import_texts ==
              [i \in DOMAIN final_import_nodes |->
                  strip(get_node_text(tree, final_import_nodes[i], code_bytes))]
      IN [nodes |-> final_import_nodes,
          lines |-> splitlines(JoinLines(unique_import_texts))]

\* ----------------------------------------------------- import_filtering.py
member_access_types == {"member_expression", "attribute"}

\* the nodes the traversal of _find_identifiers_in_span processes: it starts at
\* the smallest node covering start_byte and only descends into children that
\* overlap the span
NodesSearched(tree, start_byte, end_byte) ==
    LET start_node == descendant_for_byte_range(tree, RootId, start_byte, start_byte)
    IN {n \in DOMAIN tree :
          /\ IsAncestorOrSelf(tree, start_node, n)
          /\ Overlaps(tree[n], start_byte, end_byte)}

\* the property/attribute part of a member access node
PropertyNode(tree, n) ==
    LET p == child_by_field_name(tree, n, "property")
        a == child_by_field_name(tree, n, "attribute")
        f == child_by_field_name(tree, n, "field")
    IN IF p # 0 THEN p ELSE IF a # 0 THEN a ELSE f

\* _find_identifiers_in_span
find_identifiers_in_span(tree, start_byte, end_byte, config, code_bytes) ==
    IF start_byte >= end_byte THEN {}
    ELSE
      LET searched == NodesSearched(tree, start_byte, end_byte)
          Text(n) == get_node_text(tree, n, code_bytes)
          Usable(t) == t # <<>> /\ ~IsBlank(t)
          own == {Text(n) : n \in {m \in searched : tree[m].type \in config.identifier_types}}
          members == {m \in searched : tree[m].type \in member_access_types}
          objects == {child_by_field_name(tree, m, "object") : m \in members}
          props == {PropertyNode(tree, m) : m \in members}
          objTexts == {Text(o) : o \in {x \in objects :
                          x # 0 /\ tree[x].type \in config.identifier_types}}
          propTexts == {Text(q) : q \in {x \in props :
                          x # 0 /\ (tree[x].type \in config.identifier_types
                                    \/ tree[x].type = "identifier")}}
      IN {t \in own \cup objTexts \cup propTexts : Usable(t)}

\* the names an import node brings into scope (the branches of
\* _filter_imports_for_chunk for the node types of Python and of PHP's
\* include/require; "*" is the wildcard sentinel)
imported_names_in_node(tree, n, code_bytes) ==
    LET Text(m) == get_node_text(tree, m, code_bytes)
        kids == SeqToSet(Children(tree, n))
    IN IF tree[n].type = "import_statement" THEN
         UNION { IF tree[c].type = "dotted_name" THEN
                    LET ks == Children(tree, c)
                    IN IF ks # <<>> /\ tree[ks[1]].type = "identifier"
                       THEN {Text(ks[1])} ELSE {}
                 ELSE IF tree[c].type = "aliased_import" THEN
                    LET al == child_by_field_name(tree, c, "alias")
                    IN IF al # 0 THEN {Text(al)} ELSE {}
                 ELSE IF tree[c].type = "identifier" THEN {Text(c)}
                 ELSE {}
                 : c \in SeqToSet(named_children(tree, n)) }
       ELSE IF tree[n].type = "import_from_statement" THEN
         LET conts == {c \in kids : tree[c].type \in {"import_list", "wildcard_import"}}
         IN IF conts = {} THEN {}
            ELSE LET names_container == CHOOSE c \in conts : \A d \in conts : c <= d
                 IN IF tree[names_container].type = "wildcard_import" THEN {<<"*">>}
                    ELSE UNION {
                      IF tree[it].type = "aliased_import" THEN
                        LET al == child_by_field_name(tree, it, "alias")
                            nm == child_by_field_name(tree, it, "name")
                        IN IF al # 0 THEN {Text(al)} ELSE IF nm # 0 THEN {Text(nm)} ELSE {}
                      ELSE IF tree[it].type \in {"identifier", "dotted_name"} THEN {Text(it)}
                      ELSE {}
                      : it \in SeqToSet(Children(tree, names_container)) }
       ELSE IF tree[n].type \in {"include_expression", "require_expression"} THEN {<<"*">>}
       ELSE {}

\* imported_names_to_line_indices[name]: the 0-based indices of the import
\* nodes that bind name
LineIndicesOf(tree, all_import_nodes, config, code_bytes, name) ==
    {i - 1 : i \in {j \in DOMAIN all_import_nodes :
        /\ tree[all_import_nodes[j]].type \in config.imports
        /\ name \in imported_names_in_node(tree, all_import_nodes[j], code_bytes)}}

RECURSIVE SortedSeq(_)
\* sorted(list(set_of_ints))
SortedSeq(S) ==
    IF S = {} THEN <<>>
    ELSE LET m == CHOOSE x \in S : \A y \in S : x <= y IN <<m>> \o SortedSeq(S \ {m})

\* a faulty step 3 that keeps, under a wildcard, only the wildcard's own line
\* (C9 must reject it)
relevant_line_indices_wildcard_only(tree, all_import_lines, all_import_nodes, used_identifiers, config, code_bytes) ==
    LET wild == LineIndicesOf(tree, all_import_nodes, config, code_bytes, <<"*">>)
    IN IF wild # {}
       THEN wild
       ELSE UNION {LineIndicesOf(tree, all_import_nodes, config, code_bytes, id)
                     : id \in used_identifiers}

\* step 3 of _filter_imports_for_chunk: the relevant line indices
relevant_line_indices(tree, all_import_lines, all_import_nodes, used_identifiers, config, code_bytes) ==
    LET wild == LineIndicesOf(tree, all_import_nodes, config, code_bytes, <<"*">>)
    IN IF wild # {}
       THEN wild \cup (0 .. Len(all_import_lines) - 1)
       ELSE UNION {LineIndicesOf(tree, all_import_nodes, config, code_bytes, id)
                     : id \in used_identifiers}

\* _filter_imports_for_chunk
filter_imports_for_chunk(tree, all_import_lines, all_import_nodes, span, config, code_bytes) ==
    LET used_identifiers ==
            find_identifiers_in_span(tree, span.start, span.end, config, code_bytes)
        idx == SortedSeq(relevant_line_indices(tree, all_import_lines, all_import_nodes,
                                               used_identifiers, config, code_bytes))
    IN [i \in DOMAIN idx |-> all_import_lines[idx[i] + 1]]

\* ------------------------------------- context_extraction.extract_chunk_context
\* the prefix of the ancestor chain that the "while current" loop walks: it
\* ends with the first node of a stop type (or the root)
RECURSIVE WalkedAncestors(_,_,_)
WalkedAncestors(tree, chain, stop_types) ==
    IF chain = <<>> THEN <<>>
    ELSE IF tree[Head(chain)].type \in stop_types THEN <<Head(chain)>>
    ELSE <<Head(chain)>> \o WalkedAncestors(tree, Tail(chain), stop_types)

Reverse(s) == [i \in DOMAIN s |-> s[Len(s) + 1 - i]]

\* found_ancestors of extract_chunk_context, outermost first
found_ancestors(tree, chunk_defining_node, config) ==
    Reverse(SelectSeq(
        WalkedAncestors(tree, Ancestors(tree, chunk_defining_node),
                        config.stop_at \cup {"comment"}),
        LAMBDA a : tree[a].type \in config.containers))

\* how far extract_chunk_context looks into a container for the block delimiter
HeaderScanLimit == 500

\* str.find of a one-character delimiter: 0-based position, -1 if absent
FindChar(s, ch) ==
    LET hits == {i \in DOMAIN s : s[i] = ch}
    IN IF hits = {} THEN -1 ELSE (CHOOSE i \in hits : \A j \in hits : i <= j) - 1

\* the byte where the signature of a container ends
signature_end_byte(tree, a, config, code_bytes) ==
    LET body_node == child_by_field_name(tree, a, "body")
    IN IF body_node # 0 THEN tree[body_node].start_byte
       ELSE IF config.block_start # "" THEN
         LET header_text_full ==
                 Slice(code_bytes, tree[a].start_byte,
                       Min(tree[a].end_byte, tree[a].start_byte + HeaderScanLimit))
             delim_pos == FindChar(header_text_full, config.block_start)
         IN IF delim_pos # -1 THEN tree[a].start_byte + delim_pos + 1
            ELSE tree[a].end_byte
       ELSE tree[a].end_byte

\* the 1-based (start_line, end_line) of the signature of container a
signature_span(tree, a, config, code_bytes) ==
    <<get_line_number(tree[a].start_byte, code_bytes) + 1,
      get_line_number(signature_end_byte(tree, a, config, code_bytes), code_bytes) + 1>>

\* the name of a container: its name field, else a second child that is an
\* identifier; <<>> when there is none
container_name(tree, a, code_bytes) ==
    LET named_field == child_by_field_name(tree, a, "name")
        kids == Children(tree, a)
        name_node == IF named_field # 0 THEN named_field
                     ELSE IF Len(kids) > 1 /\ tree[kids[2]].type \in {"identifier", "type_identifier"}
                     THEN kids[2] ELSE 0
    IN IF name_node # 0 THEN get_node_text(tree, name_node, code_bytes) ELSE <<>>

\* a relational description: its wording (kind) and the containers it names
Description(kind, containers) == [kind |-> kind, containers |-> containers]

\* extract_chunk_context: [ancestor_nodes, parent_context_spans, relational_description]
extract_chunk_context(tree, chunk_defining_node, config, code_bytes) ==
    IF config.containers = {}
    THEN [ancestor_nodes |-> <<>>, parent_context_spans |-> <<>>,
          relational_description |-> Description("Code chunk", <<>>)]
    ELSE
      LET found == found_ancestors(tree, chunk_defining_node, config)
          names == [i \in DOMAIN found |->
                      [type |-> tree[found[i]].type,
                       name |-> container_name(tree, found[i], code_bytes)]]
      IN [ancestor_nodes |-> found,
          parent_context_spans |->
              [i \in DOMAIN found |-> signature_span(tree, found[i], config, code_bytes)],
          relational_description |->
              IF found # <<>> THEN Description("Chunk within", names)
              ELSE Description("Top-level code chunk", <<>>)]

\* ---------------------------------------------------------- path and ids
\* str.find(needle): 0-based position of the first occurrence, -1 if absent
FindSub(hay, needle) ==
    LET hits == {i \in 0 .. (Len(hay) - Len(needle)) :
                    SubSeq(hay, i + 1, i + Len(needle)) = needle}
    IN IF hits = {} THEN -1 ELSE CHOOSE i \in hits : \A j \in hits : i <= j

\* os.path.basename
basename(path) ==
    LET slashes == {i \in DOMAIN path : path[i] = "/"}
    IN IF slashes = {} THEN path
       ELSE SubSeq(path, (CHOOSE i \in slashes : \A j \in slashes : i >= j) + 1, Len(path))

\* the path normalisation of assemble_chunk_data and chunk_by_lines
normalized_file_path(original_file_path, repo_name) ==
    LET repo_index == FindSub(original_file_path, repo_name)
    IN IF repo_index # -1
       THEN SubSeq(original_file_path, repo_index + 1, Len(original_file_path))
       ELSE repo_name \o <<"/">> \o basename(original_file_path)

DigitChars == <<"0", "1", "2", "3", "4", "5", "6", "7", "8", "9">>

RECURSIVE Digits(_)
\* str(n) for n >= 0
Digits(n) == IF n < 10 THEN <<DigitChars[n + 1]>> ELSE Digits(n \div 10) \o <<DigitChars[(n % 10) + 1]>>

\* f"{path}-L{start_line}-L{end_line}"
line_chunk_id(path, start_line, end_line) ==
    path \o <<"-", "L">> \o Digits(start_line) \o <<"-", "L">> \o Digits(end_line)

\* f"{path}-cell{idx}-{sub}"
cell_chunk_id(path, idx, sub) ==
    path \o <<"-", "c", "e", "l", "l">> \o Digits(idx) \o <<"-">> \o Digits(sub)

\* ------------------------------------------------------- chunk_assembly.py
\* a span with fewer non-whitespace characters is dropped by assemble_chunk_data
SignificanceThreshold == 5

\* "if non_whitespace_len(original_chunk_text) < 5: return None", negated
IsSignificant(byte_span, code_bytes) ==
    non_whitespace_len(extract_bytes(byte_span, code_bytes)) >= SignificanceThreshold

\* the node of the first non-whitespace character of the span (of the span's
\* start when there is none)
content_start_node_of(tree, byte_span, code_bytes) ==
    LET text == extract_bytes(byte_span, code_bytes)
        nonws == {i \in DOMAIN text : text[i] \notin WhitespaceChars}
    IN IF nonws # {}
       THEN LET first_char_offset ==
                    byte_span.start + (CHOOSE i \in nonws : \A j \in nonws : i <= j) - 1
            IN descendant_for_byte_range(tree, RootId, first_char_offset, first_char_offset)
       ELSE descendant_for_byte_range(tree, RootId, byte_span.start, byte_span.start)

\* parent encompasses the span
encompasses_span(node, byte_span) ==
    node.start_byte <= byte_span.start /\ node.end_byte >= byte_span.end

RECURSIVE true_chunk_defining_node(_,_,_,_)
\* walk up from current_node while the parent is a container that encompasses
\* the span
true_chunk_defining_node(tree, current_node, byte_span, config) ==
    LET parent == tree[current_node].parent
    IN IF parent # 0 /\ tree[parent].type \in config.containers
                     /\ encompasses_span(tree[parent], byte_span)
       THEN true_chunk_defining_node(tree, parent, byte_span, config)
       ELSE current_node

\* the refinement of relational_description at the end of assemble_chunk_data
refined_description(tree, ctx, filtered_import_lines, content_start_node, config, code_bytes) ==
    IF ctx.ancestor_nodes # <<>> THEN ctx.relational_description
    ELSE IF filtered_import_lines # <<>>
    THEN Description("Chunk containing primarily imports", <<>>)
    ELSE IF tree[content_start_node].type \in config.containers
    THEN Description("Top-level",
                     <<[type |-> tree[content_start_node].type,
                        name |-> container_name(tree, content_start_node, code_bytes)]>>)
    ELSE Description("Top-level code chunk", <<>>)

\* parent_context_text: the source lines of every parent context span
parent_context_text_of(parent_context_spans, original_code_lines) ==
    [i \in DOMAIN parent_context_spans |->
        LET start_idx == parent_context_spans[i][1] - 1
            end_idx == parent_context_spans[i][2]
        IN IF 0 <= start_idx /\ start_idx < end_idx /\ end_idx <= Len(original_code_lines)
           THEN JoinLines(SubSeq(original_code_lines, start_idx + 1, end_idx))
           ELSE <<"[Error: Invalid line numbers]">>]

\* assemble_chunk_data for a significant span
assemble_chunk_data(byte_span, tree, config, code_bytes, base_metadata, imports, chunk_index) ==
    LET start_line == get_line_number(byte_span.start, code_bytes)
        end_line == get_line_number(byte_span.end, code_bytes)
        path == normalized_file_path(base_metadata.file_path, base_metadata.repo)
        content_start_node == content_start_node_of(tree, byte_span, code_bytes)
        defining == true_chunk_defining_node(tree, content_start_node, byte_span, config)
        ctx == extract_chunk_context(tree, defining, config, code_bytes)
        filtered_import_lines ==
            filter_imports_for_chunk(tree, imports.lines, imports.nodes, byte_span,
                                     config, code_bytes)
    IN [metadata |->
          [file_path |-> path,
           repo |-> base_metadata.repo,
           language |-> base_metadata.language,
           chunking_method |-> base_metadata.chunking_method,
           start_line |-> start_line + 1,
           end_line |-> end_line + 1,
           chunk_id |-> line_chunk_id(path, start_line + 1, end_line + 1),
           relational_description |->
               refined_description(tree, ctx, filtered_import_lines, content_start_node,
                                   config, code_bytes),
           chunk_index |-> chunk_index],
        import_lines |-> filtered_import_lines,
        parent_context_spans |-> ctx.parent_context_spans,
        parent_context_text |->
            parent_context_text_of(ctx.parent_context_spans, splitlines(code_bytes)),
        byte_span |-> byte_span,
        content |-> extract_bytes(byte_span, code_bytes)]

\* ------------------------------------------------------------- splitter.py
RECURSIVE assemble_loop(_,_,_,_,_,_,_,_)
\* Stage 3 of process_code_for_rag: "for byte_span in byte_spans", the chunk
\* index being incremented only for the spans that yield a chunk
assemble_loop(byte_spans, i, out, tree, config, code_bytes, base_metadata, imports) ==
    IF i > Len(byte_spans) THEN out
    ELSE IF IsSignificant(byte_spans[i], code_bytes)
    THEN assemble_loop(byte_spans, i + 1,
             Append(out, assemble_chunk_data(byte_spans[i], tree, config, code_bytes,
                                             base_metadata, imports, Len(out))),
             tree, config, code_bytes, base_metadata, imports)
    ELSE assemble_loop(byte_spans, i + 1, out, tree, config, code_bytes, base_metadata, imports)

\* the length of current_content.rstrip(' \t')
RECURSIVE len_stripped(_)
len_stripped(content) ==
    IF content # <<>> /\ Last(content) \in {" ", "\t"}
    THEN len_stripped(SubSeq(content, 1, Len(content) - 1))
    ELSE Len(content)

\* a faulty adjustment that strips the trailing blanks of chunk i without
\* handing them to chunk i + 1 (C1 must reject it)
handoff_pair_dropping(chunk_list, i) ==
    [chunk_list EXCEPT ![i].content = SubSeq(@, 1, len_stripped(@))]

\* a faulty adjustment that hands over the trailing newlines as well (C27 must
\* reject it)
handoff_pair_with_newlines(chunk_list, i) ==
    LET current_content == chunk_list[i].content
        n == Len(rstrip_ws(current_content))
        trailing_ws == SubSeq(current_content, n + 1, Len(current_content))
    IN IF Len(current_content) > n
       THEN [chunk_list EXCEPT ![i].content = SubSeq(current_content, 1, n),
                               ![i + 1].content = trailing_ws \o @]
       ELSE chunk_list

\* one step of the whitespace adjustment: chunks i and i + 1 (1-based)
handoff_pair(chunk_list, i) ==
    LET current_content == chunk_list[i].content
        n == len_stripped(current_content)
        trailing_ws == SubSeq(current_content, n + 1, Len(current_content))
    IN IF Len(current_content) > n
       THEN [chunk_list EXCEPT ![i].content = SubSeq(current_content, 1, n),
                               ![i + 1].content = trailing_ws \o @]
       ELSE chunk_list

RECURSIVE handoff_loop(_,_)
\* "for i in range(len(final_chunk_data_list) - 1)"
handoff_loop(chunk_list, i) ==
    IF i >= Len(chunk_list) THEN chunk_list
    ELSE handoff_loop(handoff_pair(chunk_list, i), i + 1)

\* ----------------------------------------------------- fallback_chunking.py
DEFAULT_FALLBACK_CHUNK_SIZE == 40
DEFAULT_FALLBACK_OVERLAP == 15

RECURSIVE lines_loop_without_overlap(_,_,_,_,_,_)
\* the while loop of chunk_by_lines stepping by chunk_size, the overlap forgotten
lines_loop_without_overlap(lines, start_line_idx, out, modified_metadata, chunk_size, overlap) ==
    IF start_line_idx >= Len(lines) THEN out
    ELSE
      LET end_line_idx == Min(start_line_idx + chunk_size, Len(lines))
          chunk_lines == SubSeq(lines, start_line_idx + 1, end_line_idx)
      IN IF chunk_lines = <<>> THEN out
         ELSE lines_loop_without_overlap(lines, start_line_idx + chunk_size,
                Append(out,
                  [content |-> Concat(chunk_lines),
                   metadata |->
                     [file_path |-> modified_metadata.file_path,
                      repo |-> modified_metadata.repo,
                      language |-> modified_metadata.language,
                      chunk_index |-> Len(out),
                      start_line |-> start_line_idx + 1,
                      end_line |-> end_line_idx,
                      chunking_method |-> "line-based",
                      chunk_id |-> line_chunk_id(modified_metadata.file_path,
                                                 start_line_idx + 1, end_line_idx),
                      relational_description |-> Description("Line-based code chunk", <<>>)]]),
                modified_metadata, chunk_size, overlap)

RECURSIVE lines_loop(_,_,_,_,_,_)
\* the while loop of chunk_by_lines
lines_loop(lines, start_line_idx, out, modified_metadata, chunk_size, overlap) ==
    IF start_line_idx >= Len(lines) THEN out
    ELSE
      LET end_line_idx == Min(start_line_idx + chunk_size, Len(lines))
          chunk_lines == SubSeq(lines, start_line_idx + 1, end_line_idx)
      IN IF chunk_lines = <<>> THEN out
         ELSE lines_loop(lines, start_line_idx + (chunk_size - overlap),
                Append(out,
                  [content |-> Concat(chunk_lines),
                   metadata |->
                     [file_path |-> modified_metadata.file_path,
                      repo |-> modified_metadata.repo,
                      language |-> modified_metadata.language,
                      chunk_index |-> Len(out),
                      start_line |-> start_line_idx + 1,
                      end_line |-> end_line_idx,
                      chunking_method |-> "line-based",
                      chunk_id |-> line_chunk_id(modified_metadata.file_path,
                                                 start_line_idx + 1, end_line_idx),
                      relational_description |-> Description("Line-based code chunk", <<>>)]]),
                modified_metadata, chunk_size, overlap)

\* chunk_by_lines answering an invalid overlap with the empty list
chunk_by_lines_silent(code_content, file_metadata, chunk_size, overlap) ==
    IF code_content = <<>> \/ chunk_size <= 0 \/ overlap < 0 \/ overlap >= chunk_size
    THEN [error |-> FALSE, chunks |-> <<>>]
    ELSE [error |-> FALSE,
          chunks |-> lines_loop(splitlines_keepends(code_content), 0, <<>>,
                        [file_metadata EXCEPT !.file_path =
                            normalized_file_path(file_metadata.file_path, file_metadata.repo)],
                        chunk_size, overlap)]

\* chunk_by_lines: [error, chunks]; error is TRUE for the error record
chunk_by_lines(code_content, file_metadata, chunk_size, overlap) ==
    IF code_content = <<>> THEN [error |-> FALSE, chunks |-> <<>>]
    ELSE IF chunk_size <= 0 THEN [error |-> FALSE, chunks |-> <<>>]
    ELSE IF overlap < 0 \/ overlap >= chunk_size THEN [error |-> TRUE, chunks |-> <<>>]
    ELSE [error |-> FALSE,
          chunks |-> lines_loop(splitlines_keepends(code_content), 0, <<>>,
                        [file_metadata EXCEPT !.file_path =
                            normalized_file_path(file_metadata.file_path, file_metadata.repo)],
                        chunk_size, overlap)]

\* ----------------------------------------------------- notebook_chunking.py
\* a slice index as Python reads it: a negative index counts from the end,
\* and the result stays within 0..n
slice_index(i, n) == IF i < 0 THEN Max(i + n, 0) ELSE Min(i, n)

\* str.rfind('\n', start, end): 0-based position, -1 if absent
rfind_newline(s, start, end) ==
    LET hits == {i \in slice_index(start, Len(s)) .. (slice_index(end, Len(s)) - 1) :
                   s[i + 1] = "\n"}
    IN IF hits = {} THEN -1 ELSE CHOOSE i \in hits : \A j \in hits : i >= j

\* the metadata of a notebook chunk
cell_metadata(file_metadata, cell_type, idx, sub, start_line, end_line) ==
    [file_path |-> file_metadata.file_path,
     repo |-> file_metadata.repo,
     chunking_method |-> file_metadata.chunking_method,
     language |-> "Jupyter Notebook",
     cell_type |-> cell_type,
     original_cell_index |-> idx,
     chunk_id |-> cell_chunk_id(file_metadata.file_path, idx, sub),
     start_line |-> start_line,
     end_line |-> end_line]

RECURSIVE split_cell(_,_,_,_,_,_,_)
\* the while loop that splits a cell longer than max_chars (max_chars >= 1)
split_cell(cell_content, cell_type, idx, start, sub_chunk_index, file_metadata, max_chars) ==
    IF start >= Len(cell_content) THEN <<>>
    ELSE
      LET window_end == Min(start + max_chars, Len(cell_content))
          newline_pos == rfind_newline(cell_content, start, window_end)
          end == IF newline_pos # -1 /\ newline_pos > start + (max_chars \div 4)
                 THEN newline_pos + 1 ELSE window_end
          sub_content == Slice(cell_content, start, end)
          chunk == [content |-> sub_content,
                    metadata |-> cell_metadata(file_metadata, cell_type, idx, sub_chunk_index,
                                   count_newlines(Slice(cell_content, 0, start)) + 1,
                                   count_newlines(Slice(cell_content, 0, end)) + 1)]
      IN (IF ~IsBlank(sub_content) THEN <<chunk>> ELSE <<>>)
           \o split_cell(cell_content, cell_type, idx, end, sub_chunk_index + 1,
                         file_metadata, max_chars)

\* one iteration of the while loop, for any integer start and max_chars: the
\* end of the slice, its text and its line span
slice_step(cell_content, start, max_chars) ==
    LET cell_len == Len(cell_content)
        py_slice(a, b) == IF slice_index(a, cell_len) < slice_index(b, cell_len)
                          THEN SubSeq(cell_content, slice_index(a, cell_len) + 1,
                                      slice_index(b, cell_len))
                          ELSE <<>>
        window_end == Min(start + max_chars, cell_len)
        newline_pos == rfind_newline(cell_content, start, window_end)
        end == IF newline_pos # -1 /\ newline_pos > start + (max_chars \div 4)
               THEN newline_pos + 1 ELSE window_end
    IN [end |-> end,
        sub_content |-> py_slice(start, end),
        start_line_in_cell |-> count_newlines(py_slice(0, start)) + 1,
        end_line_in_cell |-> count_newlines(py_slice(0, end)) + 1]

\* the chunks of cells[idx] (idx 0-based)
cell_chunks(cell, idx, file_metadata, max_chars) ==
    IF IsBlank(cell.source) THEN <<>>
    ELSE IF Len(cell.source) <= max_chars
    THEN <<[content |-> cell.source,
            metadata |-> cell_metadata(file_metadata, cell.cell_type, idx, 0, 1,
                                       count_newlines(cell.source) + 1)]>>
    ELSE split_cell(cell.source, cell.cell_type, idx, 0, 0, file_metadata, max_chars)

\* chunk_notebook_cells over the parsed cells
chunk_notebook_cells(cells, file_metadata, max_chars) ==
    Concat([i \in DOMAIN cells |-> cell_chunks(cells[i], i - 1, file_metadata, max_chars)])

\* ----------------------------------------------------- chunk_formatting.py
PLACEHOLDER_TEXT ==
    <<"#", ".", ".", ".", " ", "s", "o", "m", "e", " ", "c", "o", "d", "e", " ", ".",
      ".", ".">>

CHUNK_SEPARATOR ==
    <<"\n", "\n", "=", "=", "=", "=", "=", "=", "=", "=", "=", "=", " ", "C", "H", "U",
      "N", "K", " ", "S", "E", "P", "A", "R", "A", "T", "O", "R", " ", "=", "=", "=",
      "=", "=", "=", "=", "=", "=", "=", "\n", "\n">>

RECURSIVE Join(_,_)
\* separator.join(parts)
Join(parts, separator) ==
    IF parts = <<>> THEN <<>>
    ELSE IF Len(parts) = 1 THEN parts[1]
    ELSE parts[1] \o separator \o Join(Tail(parts), separator)

RECURSIVE lstrip_newlines(_)
\* str.lstrip('\n')
lstrip_newlines(s) == IF s # <<>> /\ Head(s) = "\n" THEN lstrip_newlines(Tail(s)) ELSE s

\* "lines[0].strip() if lines else ''" over text.splitlines()
first_line_stripped(text) ==
    LET lines == splitlines(text) IN IF lines = <<>> THEN <<>> ELSE strip(lines[1])

\* every parent block rendered, the comparison with the content left out
parent_list_kept(parent_context_list, original_content) == parent_context_list

\* the parent blocks that are rendered: the last one is removed when its first
\* line repeats the first line of the content
processed_parent_list_of(parent_context_list, original_content) ==
    LET content_for_comparison == lstrip_newlines(original_content)
    IN IF parent_context_list # <<>> /\ content_for_comparison # <<>>
       THEN LET first_line_of_last_parent == first_line_stripped(Last(parent_context_list))
                first_content_line == first_line_stripped(content_for_comparison)
            IN IF first_line_of_last_parent # <<>>
                  /\ first_line_of_last_parent = first_content_line
               THEN SubSeq(parent_context_list, 1, Len(parent_context_list) - 1)
               ELSE parent_context_list
       ELSE parent_context_list

\* the three sections of a block: imports, parent_context, content_to_format
\* (empty when "original_content.strip()" is empty)
sections_of(chunk_dict) ==
    LET original_content == chunk_dict.content
        \* chunk_dict.get(key, [])
        get_list(d, key) == IF key \in DOMAIN d THEN d[key] ELSE <<>>
    IN [imports |-> Join(get_list(chunk_dict, "import_lines"), <<"\n">>),
        parent_context |->
            Join(processed_parent_list_of(get_list(chunk_dict, "parent_context_text"),
                                          original_content),
                 <<"\n">> \o PLACEHOLDER_TEXT \o <<"\n">>),
        content |-> IF strip(original_content) # <<>>
                    THEN lstrip_newlines(original_content) ELSE <<>>]

\* include_tokens = True: every section between its two tags
fully_tagged_formatted_block(sections) ==
    LET IMPORTS_START ==
            <<"<", "<", "I", "M", "P", "O", "R", "T", "S", "_", "S", "T", "A", "R", "T", ">", ">">>
        IMPORTS_END ==
            <<"<", "<", "I", "M", "P", "O", "R", "T", "S", "_", "E", "N", "D", ">", ">">>
        PARENT_CONTEXT_START ==
            <<"<", "<", "P", "A", "R", "E", "N", "T", "_", "C", "O", "N", "T", "E", "X", "T", "_", "S", "T", "A", "R", "T", ">", ">">>
        PARENT_CONTEXT_END ==
            <<"<", "<", "P", "A", "R", "E", "N", "T", "_", "C", "O", "N", "T", "E", "X", "T", "_", "E", "N", "D", ">", ">">>
        ORIGINAL_CHUNK_START ==
            <<"<", "<", "O", "R", "I", "G", "I", "N", "A", "L", "_", "C", "H", "U", "N", "K", "_", "S", "T", "A", "R", "T", ">", ">">>
        ORIGINAL_CHUNK_END ==
            <<"<", "<", "O", "R", "I", "G", "I", "N", "A", "L", "_", "C", "H", "U", "N", "K", "_", "E", "N", "D", ">", ">">>
    IN
    Join((IF sections.imports # <<>>
          THEN <<IMPORTS_START \o <<"\n">> \o sections.imports \o <<"\n">> \o IMPORTS_END>>
          ELSE <<>>)
         \o (IF sections.parent_context # <<>>
             THEN <<PARENT_CONTEXT_START \o <<"\n">> \o sections.parent_context
                      \o <<"\n">> \o PARENT_CONTEXT_END>>
             ELSE <<>>)
         \o (IF sections.content # <<>>
             THEN <<ORIGINAL_CHUNK_START \o <<"\n">> \o sections.content
                      \o <<"\n">> \o ORIGINAL_CHUNK_END>>
             ELSE <<>>),
         <<"\n", "\n">>)

\* include_tokens = False: every section between two placeholders
intermediate_parts_of(sections) ==
    (IF sections.imports # <<>>
     THEN <<PLACEHOLDER_TEXT, sections.imports, PLACEHOLDER_TEXT>> ELSE <<>>)
    \o (IF sections.parent_context # <<>>
        THEN <<PLACEHOLDER_TEXT, sections.parent_context, PLACEHOLDER_TEXT>> ELSE <<>>)
    \o (IF sections.content # <<>>
        THEN <<PLACEHOLDER_TEXT, sections.content, PLACEHOLDER_TEXT>> ELSE <<>>)

\* "intermediate_parts[0] = ''" and, with more than one part, "[-1] = ''"
blank_first_and_last(parts) ==
    [i \in DOMAIN parts |-> IF i = 1 \/ i = Len(parts) THEN <<>> ELSE parts[i]]

RECURSIVE consolidate(_,_,_)
\* the loop that skips empty parts and a placeholder that follows a placeholder
consolidate(parts, i, final_parts) ==
    IF i > Len(parts) THEN final_parts
    ELSE IF parts[i] = <<>> THEN consolidate(parts, i + 1, final_parts)
    ELSE IF parts[i] = PLACEHOLDER_TEXT /\ final_parts # <<>>
            /\ Last(final_parts) = PLACEHOLDER_TEXT
    THEN consolidate(parts, i + 1, final_parts)
    ELSE consolidate(parts, i + 1, Append(final_parts, parts[i]))

placeholder_formatted_block(sections) ==
    Join(consolidate(blank_first_and_last(intermediate_parts_of(sections)), 1, <<>>),
         <<"\n">>)

formatted_block_for_output(chunk_dict, include_tokens) ==
    IF include_tokens THEN fully_tagged_formatted_block(sections_of(chunk_dict))
    ELSE placeholder_formatted_block(sections_of(chunk_dict))

\* format_chunk_data: [full_formatted_text, structured_data_list]
format_chunk_data(chunk_data_list, include_tokens) ==
    LET blocks == [i \in DOMAIN chunk_data_list |->
                      formatted_block_for_output(chunk_data_list[i], include_tokens)]
    IN [full_formatted_text |-> Join(blocks, CHUNK_SEPARATOR),
        structured_data_list |->
            [i \in DOMAIN chunk_data_list |->
                [formatted_chunk_block |-> blocks[i],
                 original_content |-> chunk_data_list[i].content,
                 metadata |-> chunk_data_list[i].metadata]]]

\* ------------------------------------------------------------ input files
\* Parsed files: the source text and the syntax tree the parser returns for it
\* (root first, every node after its parent, siblings in source order).
\* P1 (python), 41 bytes:
\*     import os
\*     
\*     def greet(n):
\*         return os.x
\*     
P1_src ==
    <<"i","m","p","o","r","t"," ","o","s","\n">>
      \o <<"\n">>
      \o <<"d","e","f"," ","g","r","e","e","t","(","n",")",":","\n">>
      \o <<" "," "," "," ","r","e","t","u","r","n"," ","o","s",".","x","\n">>

P1_tree ==
    <<Node("module", 0, 41, 0, "", TRUE),
      Node("import_statement", 0, 9, 1, "", TRUE),
      Node("import", 0, 6, 2, "", FALSE),
      Node("dotted_name", 7, 9, 2, "name", TRUE),
      Node("identifier", 7, 9, 4, "", TRUE),
      Node("function_definition", 11, 40, 1, "", TRUE),
      Node("def", 11, 14, 6, "", FALSE),
      Node("identifier", 15, 20, 6, "name", TRUE),
      Node("parameters", 20, 23, 6, "parameters", TRUE),
      Node("(", 20, 21, 9, "", FALSE),
      Node("identifier", 21, 22, 9, "", TRUE),
      Node(")", 22, 23, 9, "", FALSE),
      Node(":", 23, 24, 6, "", FALSE),
      Node("block", 29, 40, 6, "body", TRUE),
      Node("return_statement", 29, 40, 14, "", TRUE),
      Node("return", 29, 35, 15, "", FALSE),
      Node("attribute", 36, 40, 15, "", TRUE),
      Node("identifier", 36, 38, 17, "object", TRUE),
      Node(".", 38, 39, 17, "", FALSE),
      Node("identifier", 39, 40, 17, "attribute", TRUE)>>

\* P2 (python), 137 bytes:
\*     import os
\*     import sys
\*     
\*     class A:
\*         def m(self):
\*             return os.path
\*     
\*         def k(self):
\*             return 12
\*     
\*     def g():
\*         return sys.argv
\*     
P2_src ==
    <<"i","m","p","o","r","t"," ","o","s","\n">>
      \o <<"i","m","p","o","r","t"," ","s","y","s","\n">>
      \o <<"\n">>
      \o <<"c","l","a","s","s"," ","A",":","\n">>
      \o <<" "," "," "," ","d","e","f"," ","m","(","s","e","l","f",")",":","\n">>
      \o <<" "," "," "," "," "," "," "," ","r","e","t","u","r","n"," ","o","s",".","p","a","t","h","\n">>
      \o <<"\n">>
      \o <<" "," "," "," ","d","e","f"," ","k","(","s","e","l","f",")",":","\n">>
      \o <<" "," "," "," "," "," "," "," ","r","e","t","u","r","n"," ","1","2","\n">>
      \o <<"\n">>
      \o <<"d","e","f"," ","g","(",")",":","\n">>
      \o <<" "," "," "," ","r","e","t","u","r","n"," ","s","y","s",".","a","r","g","v","\n">>

P2_tree ==
    <<Node("module", 0, 137, 0, "", TRUE),
      Node("import_statement", 0, 9, 1, "", TRUE),
      Node("import", 0, 6, 2, "", FALSE),
      Node("dotted_name", 7, 9, 2, "name", TRUE),
      Node("identifier", 7, 9, 4, "", TRUE),
      Node("import_statement", 10, 20, 1, "", TRUE),
      Node("import", 10, 16, 6, "", FALSE),
      Node("dotted_name", 17, 20, 6, "name", TRUE),
      Node("identifier", 17, 20, 8, "", TRUE),
      Node("class_definition", 22, 106, 1, "", TRUE),
      Node("class", 22, 27, 10, "", FALSE),
      Node("identifier", 28, 29, 10, "name", TRUE),
      Node(":", 29, 30, 10, "", FALSE),
      Node("block", 35, 106, 10, "body", TRUE),
      Node("function_definition", 35, 70, 14, "", TRUE),
      Node("def", 35, 38, 15, "", FALSE),
      Node("identifier", 39, 40, 15, "name", TRUE),
      Node("parameters", 40, 46, 15, "parameters", TRUE),
      Node("(", 40, 41, 18, "", FALSE),
      Node("identifier", 41, 45, 18, "", TRUE),
      Node(")", 45, 46, 18, "", FALSE),
      Node(":", 46, 47, 15, "", FALSE),
      Node("block", 56, 70, 15, "body", TRUE),
      Node("return_statement", 56, 70, 23, "", TRUE),
      Node("return", 56, 62, 24, "", FALSE),
      Node("attribute", 63, 70, 24, "", TRUE),
      Node("identifier", 63, 65, 26, "object", TRUE),
      Node(".", 65, 66, 26, "", FALSE),
      Node("identifier", 66, 70, 26, "attribute", TRUE),
      Node("function_definition", 76, 106, 14, "", TRUE),
      Node("def", 76, 79, 30, "", FALSE),
      Node("identifier", 80, 81, 30, "name", TRUE),
      Node("parameters", 81, 87, 30, "parameters", TRUE),
      Node("(", 81, 82, 33, "", FALSE),
      Node("identifier", 82, 86, 33, "", TRUE),
      Node(")", 86, 87, 33, "", FALSE),
      Node(":", 87, 88, 30, "", FALSE),
      Node("block", 97, 106, 30, "body", TRUE),
      Node("return_statement", 97, 106, 38, "", TRUE),
      Node("return", 97, 103, 39, "", FALSE),
      Node("integer", 104, 106, 39, "", TRUE),
      Node("function_definition", 108, 136, 1, "", TRUE),
      Node("def", 108, 111, 42, "", FALSE),
      Node("identifier", 112, 113, 42, "name", TRUE),
      Node("parameters", 113, 115, 42, "parameters", TRUE),
      Node("(", 113, 114, 45, "", FALSE),
      Node(")", 114, 115, 45, "", FALSE),
      Node(":", 115, 116, 42, "", FALSE),
      Node("block", 121, 136, 42, "body", TRUE),
      Node("return_statement", 121, 136, 49, "", TRUE),
      Node("return", 121, 127, 50, "", FALSE),
      Node("attribute", 128, 136, 50, "", TRUE),
      Node("identifier", 128, 131, 52, "object", TRUE),
      Node(".", 131, 132, 52, "", FALSE),
      Node("identifier", 132, 136, 52, "attribute", TRUE)>>

\* P3 (python), 65 bytes:
\*     from u import *
\*     import os
\*     import sys
\*     
\*     def f():
\*         return os.sep
\*     
P3_src ==
    <<"f","r","o","m"," ","u"," ","i","m","p","o","r","t"," ","*","\n">>
      \o <<"i","m","p","o","r","t"," ","o","s","\n">>
      \o <<"i","m","p","o","r","t"," ","s","y","s","\n">>
      \o <<"\n">>
      \o <<"d","e","f"," ","f","(",")",":","\n">>
      \o <<" "," "," "," ","r","e","t","u","r","n"," ","o","s",".","s","e","p","\n">>

P3_tree ==
    <<Node("module", 0, 65, 0, "", TRUE),
      Node("import_from_statement", 0, 15, 1, "", TRUE),
      Node("from", 0, 4, 2, "", FALSE),
      Node("dotted_name", 5, 6, 2, "module_name", TRUE),
      Node("identifier", 5, 6, 4, "", TRUE),
      Node("import", 7, 13, 2, "", FALSE),
      Node("wildcard_import", 14, 15, 2, "", TRUE),
      Node("*", 14, 15, 7, "", FALSE),
      Node("import_statement", 16, 25, 1, "", TRUE),
      Node("import", 16, 22, 9, "", FALSE),
      Node("dotted_name", 23, 25, 9, "name", TRUE),
      Node("identifier", 23, 25, 11, "", TRUE),
      Node("import_statement", 26, 36, 1, "", TRUE),
      Node("import", 26, 32, 13, "", FALSE),
      Node("dotted_name", 33, 36, 13, "name", TRUE),
      Node("identifier", 33, 36, 15, "", TRUE),
      Node("function_definition", 38, 64, 1, "", TRUE),
      Node("def", 38, 41, 17, "", FALSE),
      Node("identifier", 42, 43, 17, "name", TRUE),
      Node("parameters", 43, 45, 17, "parameters", TRUE),
      Node("(", 43, 44, 20, "", FALSE),
      Node(")", 44, 45, 20, "", FALSE),
      Node(":", 45, 46, 17, "", FALSE),
      Node("block", 51, 64, 17, "body", TRUE),
      Node("return_statement", 51, 64, 24, "", TRUE),
      Node("return", 51, 57, 25, "", FALSE),
      Node("attribute", 58, 64, 25, "", TRUE),
      Node("identifier", 58, 60, 27, "object", TRUE),
      Node(".", 60, 61, 27, "", FALSE),
      Node("identifier", 61, 64, 27, "attribute", TRUE)>>

\* P4 (python), 22 bytes:
\*     alpha = bravo + delta
\*     
P4_src ==
    <<"a","l","p","h","a"," ","="," ","b","r","a","v","o"," ","+"," ","d","e","l","t","a","\n">>

P4_tree ==
    <<Node("module", 0, 22, 0, "", TRUE),
      Node("expression_statement", 0, 21, 1, "", TRUE),
      Node("assignment", 0, 21, 2, "", TRUE),
      Node("identifier", 0, 5, 3, "left", TRUE),
      Node("=", 6, 7, 3, "", FALSE),
      Node("binary_operator", 8, 21, 3, "right", TRUE),
      Node("identifier", 8, 13, 6, "left", TRUE),
      Node("+", 14, 15, 6, "", FALSE),
      Node("identifier", 16, 21, 6, "right", TRUE)>>

\* P5 (php), 46 bytes:
\*     <?php
\*     include 'a';
\*     function f() { return 1; }
\*     
P5_src ==
    <<"<","?","p","h","p","\n">>
      \o <<"i","n","c","l","u","d","e"," ","'","a","'",";","\n">>
      \o <<"f","u","n","c","t","i","o","n"," ","f","(",")"," ","{"," ","r","e","t","u","r","n"," ","1",";"," ","}","\n">>

P5_tree ==
    <<Node("program", 0, 46, 0, "", TRUE),
      Node("php_tag", 0, 5, 1, "", TRUE),
      Node("<?php", 0, 5, 2, "", FALSE),
      Node("expression_statement", 6, 18, 1, "", TRUE),
      Node("include_expression", 6, 17, 4, "", TRUE),
      Node("include", 6, 13, 5, "", FALSE),
      Node("string", 14, 17, 5, "", TRUE),
      Node(";", 17, 18, 4, "", FALSE),
      Node("function_definition", 19, 45, 1, "", TRUE),
      Node("function", 19, 27, 9, "", FALSE),
      Node("name", 28, 29, 9, "name", TRUE),
      Node("formal_parameters", 29, 31, 9, "parameters", TRUE),
      Node("(", 29, 30, 12, "", FALSE),
      Node(")", 30, 31, 12, "", FALSE),
      Node("compound_statement", 32, 45, 9, "body", TRUE),
      Node("{", 32, 33, 15, "", FALSE),
      Node("return_statement", 34, 43, 15, "", TRUE),
      Node("return", 34, 40, 17, "", FALSE),
      Node("integer", 41, 42, 17, "", TRUE),
      Node(";", 42, 43, 17, "", FALSE),
      Node("}", 44, 45, 15, "", FALSE)>>


\* P6 (python), 57 bytes; its first import statement spans two lines:
\*     from a import (
\*         b)
\*     import c
\*     
\*     def f():
\*         return c.x
\*     
P6_src ==
    <<"f","r","o","m"," ","a"," ","i","m","p","o","r","t"," ","(","\n">>
      \o <<" "," "," "," ","b",")","\n">>
      \o <<"i","m","p","o","r","t"," ","c","\n">>
      \o <<"\n">>
      \o <<"d","e","f"," ","f","(",")",":","\n">>
      \o <<" "," "," "," ","r","e","t","u","r","n"," ","c",".","x","\n">>

P6_tree ==
    <<Node("module", 0, 57, 0, "", TRUE),
      Node("import_from_statement", 0, 22, 1, "", TRUE),
      Node("from", 0, 4, 2, "", FALSE),
      Node("dotted_name", 5, 6, 2, "module_name", TRUE),
      Node("identifier", 5, 6, 4, "", TRUE),
      Node("import", 7, 13, 2, "", FALSE),
      Node("(", 14, 15, 2, "", FALSE),
      Node("dotted_name", 20, 21, 2, "name", TRUE),
      Node("identifier", 20, 21, 8, "", TRUE),
      Node(")", 21, 22, 2, "", FALSE),
      Node("import_statement", 23, 31, 1, "", TRUE),
      Node("import", 23, 29, 11, "", FALSE),
      Node("dotted_name", 30, 31, 11, "name", TRUE),
      Node("identifier", 30, 31, 13, "", TRUE),
      Node("function_definition", 33, 56, 1, "", TRUE),
      Node("def", 33, 36, 15, "", FALSE),
      Node("identifier", 37, 38, 15, "name", TRUE),
      Node("parameters", 38, 40, 15, "parameters", TRUE),
      Node("(", 38, 39, 18, "", FALSE),
      Node(")", 39, 40, 18, "", FALSE),
      Node(":", 40, 41, 15, "", FALSE),
      Node("block", 46, 56, 15, "body", TRUE),
      Node("return_statement", 46, 56, 22, "", TRUE),
      Node("return", 46, 52, 23, "", FALSE),
      Node("attribute", 53, 56, 23, "", TRUE),
      Node("identifier", 53, 54, 25, "object", TRUE),
      Node(".", 54, 55, 25, "", FALSE),
      Node("identifier", 55, 56, 25, "attribute", TRUE)>>

\* a file the parser reports has_error for
E1_src == <<"d", "e", "f", " ", "(", ":", "\n">>

RECURSIVE IntervalSeqs(_,_)
\* every sequence of source-ordered, pairwise disjoint, non-empty intervals
\* inside [lo, hi)
IntervalSeqs(lo, hi) ==
    {<<>>} \cup
    UNION { { <<p>> \o r : r \in IntervalSeqs(p[2], hi) }
            : p \in {q \in (lo..hi) \X (lo..hi) : q[1] < q[2]} }

\* a tree of depth <= 2: root [rs, n), children top, and below child k
\* (when k > 0) the nodes sub
GenTree(rs, n, top, k, sub) ==
    <<Node("module", rs, n, 0, "", TRUE)>>
      \o [i \in 1..Len(top) |->
            Node("expression_statement", top[i][1], top[i][2], 1, "", TRUE)]
      \o [i \in 1..Len(sub) |-> Node("identifier", sub[i][1], sub[i][2], 1 + k, "", TRUE)]

GenTrees(rs, n) ==
    UNION { {GenTree(rs, n, top, 0, <<>>)} \cup
            { GenTree(rs, n, top, k, sub) :
                <<k, sub>> \in UNION { {k} \X (IntervalSeqs(top[k][1], top[k][2]) \ {<<>>})
                                 : k \in 1..Len(top) } }
            : top \in IntervalSeqs(rs, n) }

\* the texts the generated trees are laid over: all letters; a newline at
\* every second byte; trailing blanks; a leading newline; three trailing
\* newlines
GenText(n, k) ==
    [i \in 1..n |->
        CASE k = 1 -> "a"
          [] k = 2 -> IF i % 2 = 0 THEN "\n" ELSE "a"
          [] k = 3 -> IF 2 * i > n + 1 THEN " " ELSE "a"
          [] k = 5 -> IF i > n - 3 THEN "\n" ELSE "a"
          [] OTHER -> IF i = 1 THEN "\n" ELSE "a"]

\* an input of split_code: the arguments, with the parser's answer for the text
Input(language_name, code_content, tree, has_error, cells, path, max_chars, coalesce) ==
    [language_name |-> language_name, code_content |-> code_content, tree |-> tree,
     has_error |-> has_error, cells |-> cells, file_path |-> path.file_path,
     repo |-> path.repo, MAX_CHARS |-> max_chars, coalesce |-> coalesce]

\* file_path and repo_name: a path that contains the repository name, and one
\* that does not
InRepoPath == [file_path |-> <<"/", "x", "/", "r", "/", "f">>, repo |-> <<"r">>]
BarePath == [file_path |-> <<"f">>, repo |-> <<"r">>]

DEFAULT_MAX_CHARS == 1500
DEFAULT_COALESCE == 200

CorpusMaxChars == {8, 16, 30, DEFAULT_MAX_CHARS}
CorpusCoalesce == {0, 6, 20, DEFAULT_COALESCE}

CorpusFiles ==
    {<<"python", P1_src, P1_tree>>, <<"python", P2_src, P2_tree>>,
     <<"python", P3_src, P3_tree>>, <<"python", P4_src, P4_tree>>,
     <<"php", P5_src, P5_tree>>, <<"python", P6_src, P6_tree>>}

CorpusInputs ==
    { Input(f[1], f[2], f[3], FALSE, <<>>, InRepoPath, m, c) :
        f \in CorpusFiles, m \in CorpusMaxChars, c \in CorpusCoalesce }
    \cup { Input("python", E1_src, <<>>, TRUE, <<>>, p, DEFAULT_MAX_CHARS, DEFAULT_COALESCE) :
             p \in {InRepoPath, BarePath} }

GenCoalesce == {0, 3}

GenInputs ==
    { Input("python", GenText(MaxLen, tk[2]), tk[1], FALSE, <<>>, InRepoPath, m, c) :
        tk \in (GenTrees(0, MaxLen) \X (1..3)) \cup (GenTrees(1, MaxLen) \X {4}),
        m \in 1..(MaxLen - 1), c \in GenCoalesce }
    \cup { Input("python", GenText(MaxLen, 5), t, FALSE, <<>>, InRepoPath, MaxLen - 1, c) :
             t \in GenTrees(0, MaxLen), c \in GenCoalesce }

\* line-based files: n lines of which the first k hold a letter, with or
\* without a final newline
MaxLines == 41

LineFile(n, k, final_newline) ==
    LET text == Concat([i \in 1..n |-> IF i <= k THEN <<"x", "\n">> ELSE <<"\n">>])
    IN IF final_newline \/ n = 0 THEN text ELSE SubSeq(text, 1, Len(text) - 1)

LineInputs ==
    { Input(l, LineFile(n, k, nl), <<>>, FALSE, <<>>, p, DEFAULT_MAX_CHARS, DEFAULT_COALESCE) :
        l \in {"klingon", "markdown"},
        n \in {0, 1, 2, MaxLines - 16, MaxLines - 1, MaxLines},
        k \in 0..1, nl \in BOOLEAN, p \in {InRepoPath, BarePath} }
    \cup { Input("python", LineFile(n, 0, TRUE), <<>>, FALSE, <<>>, InRepoPath,
                  DEFAULT_MAX_CHARS, DEFAULT_COALESCE) : n \in 0..2 }

\* notebooks: the parsed cells of the .ipynb file
MaxCells == 2

CellSources ==
    {<<>>, <<" ", "\n">>, <<"x">>, <<"x", "\n">>, <<"x", "\n", "y">>,
     <<"a", "b", "c", "d", "e", "\n", "f", "g">>,
     <<"a", "\n", "\n", "\n", "b", "c", "d">>}

Cells ==
    { [cell_type |-> "code", source |-> src] : src \in CellSources }
    \cup { [cell_type |-> "markdown", source |-> <<"x", "\n">>] }

RECURSIVE SeqsUpTo(_,_)
SeqsUpTo(S, n) ==
    IF n = 0 THEN {<<>>}
    ELSE LET shorter == SeqsUpTo(S, n - 1)
         IN shorter \cup { Append(s, x) : s \in shorter, x \in S }

NotebookMaxChars == {1, 3, 4, DEFAULT_MAX_CHARS}

\* the notebook text itself is JSON, never blank: an object whose "cells" are
\* the parsed cells, a JSON value that is no object, or text that is no JSON
NotebookObject == <<"{", "}">>
NotebookArray == <<"[", "]">>
NotebookInvalid == <<"{">>

NotebookInputs ==
    { Input("Jupyter Notebook", NotebookObject, <<>>, FALSE, cs, InRepoPath, m, DEFAULT_COALESCE) :
        cs \in SeqsUpTo(Cells, MaxCells), m \in NotebookMaxChars }
    \cup { Input("Jupyter Notebook", text, <<>>, FALSE, <<>>, InRepoPath, m, DEFAULT_COALESCE) :
             text \in {NotebookArray, NotebookInvalid}, m \in NotebookMaxChars }

\* every input with the include_tokens argument of split_code (False by default)
Inputs ==
    { in @@ [include_tokens |-> t] :
        in \in CorpusInputs \cup LineInputs \cup NotebookInputs, t \in BOOLEAN }
    \cup { in @@ [include_tokens |-> FALSE] : in \in GenInputs }

\* ---------------------------------------------------------- the program
\* split_code and, below it, process_code_for_rag and create_byte_spans, one
\* action per stage.  pc is the position in the call:
\*   "start" -> "chunked" -> "filled" -> "coalesced" -> "spans" -> "assembled" -> "done"
\* for a parsed file, "start" -> "done" for the other paths; at "done" the
\* chunker has returned chunk_components_list to split_code, and "returned" is
\* split_code's own return.
VARIABLES language_name, code_content, tree, has_error, cells, file_path, repo_name,
          MAX_CHARS, coalesce, include_tokens, chunk_size, overlap,
          pc, byte_chunks, filled_chunks, coalesced_chunks,
          byte_spans, chunks, chunking_error,
          full_formatted_text, structured_data_list, error_message,
          files_to_process, concurrent_limit, semaphore, task_pc, registry,
          opensearch_index

vars == <<language_name, code_content, tree, has_error, cells, file_path, repo_name,
          MAX_CHARS, coalesce, include_tokens, chunk_size, overlap,
          pc, byte_chunks, filled_chunks, coalesced_chunks,
          byte_spans, chunks, chunking_error,
          full_formatted_text, structured_data_list, error_message,
          files_to_process, concurrent_limit, semaphore, task_pc, registry,
          opensearch_index>>

inputs == <<language_name, code_content, tree, has_error, cells, file_path, repo_name,
            MAX_CHARS, coalesce, include_tokens, chunk_size, overlap>>

\* the batch of process_updated_files: the files, the semaphore with its
\* limit, the position of each file's task, and the index the tasks write to
batch == <<files_to_process, concurrent_limit, semaphore, task_pc, opensearch_index>>

\* the tri-tuple split_code returns
returned == <<full_formatted_text, structured_data_list, error_message>>

\* a component of the tri-tuple is None or a value
None == <<>>
Some(value) == <<value>>

\* split_code: "if language_name in LANGUAGE_NODE_TYPES ... else use_fallback = True"
use_fallback == language_name \notin RegisteredLanguages

\* split_code: the file_metadata handed to the chunkers
file_metadata ==
    [file_path |-> file_path,
     language |-> IF use_fallback THEN "plaintext" ELSE language_name,
     repo |-> repo_name,
     chunking_method |-> IF use_fallback THEN "line-based" ELSE "tree-sitter"]

language_config == LANGUAGE_NODE_TYPES(language_name)

\* process_code_for_rag reaches the tree-sitter stages
ParsedFile ==
    /\ ~use_fallback
    /\ ~IsBlank(code_content)
    /\ language_name # "Jupyter Notebook"
    /\ language_config.has_parser
    /\ ~has_error

\* process_updated_files: int(os.getenv("CONCURRENT_FILE_LIMIT", "5"))
CONCURRENT_FILE_LIMIT == 5

\* nothing has been computed yet
NothingComputed ==
    /\ byte_chunks = <<>>
    /\ filled_chunks = <<>>
    /\ coalesced_chunks = <<>>
    /\ byte_spans = <<>>
    /\ chunks = <<>>
    /\ chunking_error = "none"
    /\ full_formatted_text = None
    /\ structured_data_list = None
    /\ error_message = None

\* the languages whose entry of LANGUAGE_NODE_TYPES holds a parser
ParserLanguages == {l \in RegisteredLanguages : LANGUAGE_NODE_TYPES(l).has_parser}

\* process_code_for_rag: "language_config['language_name'] = language_name",
\* a write into the entry of the module-level registry
store_language_name(entries, name) == [entries EXCEPT ![name] = Some(name)]

\* a single call, outside any batch; no entry of the registry has been
\* written to since the module was loaded
NoBatch ==
    /\ files_to_process = <<>>
    /\ concurrent_limit = CONCURRENT_FILE_LIMIT
    /\ semaphore = CONCURRENT_FILE_LIMIT
    /\ task_pc = <<>>
    /\ registry = [l \in ParserLanguages |-> None]
    /\ opensearch_index = <<>>

Init ==
    /\ \E in \in Inputs :
         /\ language_name = in.language_name
         /\ code_content = in.code_content
         /\ tree = in.tree
         /\ has_error = in.has_error
         /\ cells = in.cells
         /\ file_path = in.file_path
         /\ repo_name = in.repo
         /\ MAX_CHARS = in.MAX_CHARS
         /\ coalesce = in.coalesce
         /\ include_tokens = in.include_tokens
    /\ chunk_size = DEFAULT_FALLBACK_CHUNK_SIZE
    /\ overlap = DEFAULT_FALLBACK_OVERLAP
    /\ pc = "start"
    /\ NothingComputed
    /\ NoBatch

\* chunk_by_lines without its own "chunking_method": the chunks keep the
\* method of file_metadata
ReturnLinesInheritingMethod(r) ==
    /\ chunks' = [i \in DOMAIN r.chunks |->
                    [r.chunks[i] EXCEPT !.metadata.chunking_method =
                                            file_metadata.chunking_method]]
    /\ chunking_error' = IF r.error THEN "error_record" ELSE "none"
    /\ pc' = "done"
    /\ UNCHANGED <<inputs, batch, returned, byte_chunks, filled_chunks, coalesced_chunks, byte_spans>>

\* the result of a call of chunk_by_lines, as split_code receives it
ReturnLines(r) ==
    /\ chunks' = r.chunks
    /\ chunking_error' = IF r.error THEN "error_record" ELSE "none"
    /\ pc' = "done"
    /\ UNCHANGED <<inputs, batch, returned, byte_chunks, filled_chunks, coalesced_chunks, byte_spans>>

\* split_code with use_fallback: chunk_by_lines with the fallback defaults
FallbackUnknownLanguage ==
    /\ pc = "start"
    /\ use_fallback
    /\ ReturnLines(chunk_by_lines(code_content, file_metadata,
                                  DEFAULT_FALLBACK_CHUNK_SIZE, DEFAULT_FALLBACK_OVERLAP))
    /\ UNCHANGED registry

\* process_code_for_rag: "if not code_content.strip(): return []"
EmptyFile ==
    /\ pc = "start"
    /\ ~use_fallback
    /\ IsBlank(code_content)
    /\ pc' = "done"
    /\ UNCHANGED <<inputs, batch, registry, returned, byte_chunks, filled_chunks, coalesced_chunks, byte_spans,
                   chunks, chunking_error>>

\* json.loads(notebook_content): the type of the value, or the decode error
json_loads(notebook_content) ==
    CASE notebook_content = NotebookInvalid -> "JSONDecodeError"
      [] notebook_content = NotebookArray -> "list"
      [] OTHER -> "dict"

\* process_code_for_rag: the notebook branch.  Text that is no JSON gives no
\* chunk; a JSON value without .get raises in chunk_notebook_cells, and
\* process_code_for_rag returns its error dict
ChunkNotebook ==
    /\ pc = "start"
    /\ ~use_fallback
    /\ ~IsBlank(code_content)
    /\ language_name = "Jupyter Notebook"
    /\ chunks' = IF json_loads(code_content) = "dict"
                 THEN chunk_notebook_cells(cells, file_metadata, MAX_CHARS)
                 ELSE <<>>
    /\ chunking_error' = IF json_loads(code_content) = "list" THEN "error_dict" ELSE "none"
    /\ pc' = "done"
    /\ UNCHANGED <<inputs, batch, registry, returned, byte_chunks, filled_chunks, coalesced_chunks, byte_spans>>

\* process_code_for_rag: no parser for the language
FallbackNoParser ==
    /\ pc = "start"
    /\ ~use_fallback
    /\ ~IsBlank(code_content)
    /\ language_name # "Jupyter Notebook"
    /\ ~language_config.has_parser
    /\ ReturnLines(chunk_by_lines(code_content, file_metadata,
                                  DEFAULT_FALLBACK_CHUNK_SIZE, DEFAULT_FALLBACK_OVERLAP))
    /\ UNCHANGED registry

\* process_code_for_rag: the parser reports has_error
FallbackParseError ==
    /\ pc = "start"
    /\ ~use_fallback
    /\ ~IsBlank(code_content)
    /\ language_name # "Jupyter Notebook"
    /\ language_config.has_parser
    /\ has_error
    /\ ReturnLines(chunk_by_lines(code_content, file_metadata,
                                  DEFAULT_FALLBACK_CHUNK_SIZE, DEFAULT_FALLBACK_OVERLAP))
    /\ registry' = store_language_name(registry, language_name)

\* process_code_for_rag: "if not byte_spans and code_content.strip():
\* byte_spans = [Span(0, len(encoded_code))]"
spans_or_whole_file(spans, code_bytes) ==
    IF spans = <<>> /\ ~IsBlank(code_bytes) THEN <<Span(0, Len(code_bytes))>> ELSE spans

\* create_byte_spans, step 1; with no chunk at all it returns at once
ChunkTree ==
    /\ pc = "start"
    /\ ParsedFile
    /\ LET built == chunk_tree_recursive(tree, RootId, MAX_CHARS)
       IN /\ byte_chunks' = built
          /\ IF built = <<>>
             THEN /\ byte_spans' = spans_or_whole_file(
                         IF tree[RootId].end_byte > tree[RootId].start_byte
                         THEN <<Span(tree[RootId].start_byte, tree[RootId].end_byte)>>
                         ELSE <<>>, code_content)
                  /\ pc' = "spans"
             ELSE /\ byte_spans' = byte_spans
                  /\ pc' = "chunked"
    /\ registry' = store_language_name(registry, language_name)
    /\ UNCHANGED <<inputs, batch, returned, filled_chunks, coalesced_chunks, chunks, chunking_error>>

\* create_byte_spans, step 2
FillGaps ==
    /\ pc = "chunked"
    /\ filled_chunks' = filled_chunks_of(byte_chunks, tree[RootId])
    /\ pc' = "filled"
    /\ UNCHANGED <<inputs, batch, registry, returned, byte_chunks, coalesced_chunks, byte_spans, chunks,
                   chunking_error>>

\* create_byte_spans, step 3
Coalesce ==
    /\ pc = "filled"
    /\ coalesced_chunks' = coalesced_chunks_of(filled_chunks, code_content, MAX_CHARS, coalesce)
    /\ pc' = "coalesced"
    /\ UNCHANGED <<inputs, batch, registry, returned, byte_chunks, filled_chunks, byte_spans, chunks,
                   chunking_error>>

\* create_byte_spans: the final filter and the return to process_code_for_rag
FilterSpans ==
    /\ pc = "coalesced"
    /\ byte_spans' = spans_or_whole_file(final_chunks_of(coalesced_chunks, code_content),
                                         code_content)
    /\ pc' = "spans"
    /\ UNCHANGED <<inputs, batch, registry, returned, byte_chunks, filled_chunks, coalesced_chunks, chunks,
                   chunking_error>>

\* process_code_for_rag, stages 2 and 3
Assemble ==
    /\ pc = "spans"
    /\ chunks' = assemble_loop(byte_spans, 1, <<>>, tree, language_config, code_content,
                               file_metadata,
                               find_all_import_nodes(tree, language_config, code_content))
    /\ pc' = "assembled"
    /\ UNCHANGED <<inputs, batch, registry, returned, byte_chunks, filled_chunks, coalesced_chunks, byte_spans,
                   chunking_error>>

\* process_code_for_rag: the whitespace adjustment between chunks
Handoff ==
    /\ pc = "assembled"
    /\ chunks' = handoff_loop(chunks, 1)
    /\ pc' = "done"
    /\ UNCHANGED <<inputs, batch, registry, returned, byte_chunks, filled_chunks, coalesced_chunks, byte_spans,
                   chunking_error>>

\* split_code after the chunker returned (generate_descriptions is False): the
\* error record, the result that is no list, the empty list, and step 2, the
\* formatting
split_code_result_unchecked(chunk_components_list, error, tokens) ==
    LET formatted == format_chunk_data(chunk_components_list, tokens)
    IN [full_formatted_text |-> Some(formatted.full_formatted_text),
        structured_data_list |-> Some(formatted.structured_data_list),
        error_message |-> IF error = "none" THEN None ELSE Some("Chunking failed")]

split_code_result(chunk_components_list, error, tokens) ==
    IF error = "error_record"
    THEN [full_formatted_text |-> None, structured_data_list |-> None,
          error_message |-> Some("Chunking failed: Invalid overlap value.")]
    ELSE IF error = "error_dict"
    THEN [full_formatted_text |-> None, structured_data_list |-> None,
          error_message |-> Some("Unexpected result type from chunking process: <class 'dict'>")]
    ELSE IF chunk_components_list = <<>>
    THEN [full_formatted_text |-> Some(<<>>), structured_data_list |-> Some(<<>>),
          error_message |-> None]
    ELSE LET formatted == format_chunk_data(chunk_components_list, tokens)
         IN [full_formatted_text |-> Some(formatted.full_formatted_text),
             structured_data_list |-> Some(formatted.structured_data_list),
             error_message |-> None]

ReturnResult ==
    /\ pc = "done"
    /\ LET result == split_code_result(chunks, chunking_error, include_tokens)
       IN /\ full_formatted_text' = result.full_formatted_text
          /\ structured_data_list' = result.structured_data_list
          /\ error_message' = result.error_message
    /\ pc' = "returned"
    /\ UNCHANGED <<inputs, batch, registry, byte_chunks, filled_chunks, coalesced_chunks, byte_spans, chunks,
                   chunking_error>>

Next ==
    \/ FallbackUnknownLanguage
    \/ EmptyFile
    \/ ChunkNotebook
    \/ FallbackNoParser
    \/ FallbackParseError
    \/ ChunkTree
    \/ FillGaps
    \/ Coalesce
    \/ FilterSpans
    \/ Assemble
    \/ Handoff
    \/ ReturnResult

Spec == Init /\ [][Next]_vars

\* ------------------------------------------- the functions called directly
\* chunk_by_lines and format_chunk_data are public functions of the package: a
\* second specification calls each of them once on arguments of its own.
MaxDirectLines == 5
MaxChunkSize == 3

\* the arguments of chunk_by_lines: short files under every small chunk_size
\* and overlap, and the 100-line file of the module's own example
LineCalls ==
    { [code_content |-> LineFile(n, k, nl), chunk_size |-> c, overlap |-> o] :
        n \in 0..MaxDirectLines, k \in 0..1, nl \in BOOLEAN,
        c \in (-1)..MaxChunkSize, o \in (-1)..MaxChunkSize }
    \cup { [code_content |-> LineFile(100, 1, nl), chunk_size |-> DEFAULT_FALLBACK_CHUNK_SIZE,
             overlap |-> DEFAULT_FALLBACK_OVERLAP] : nl \in BOOLEAN }

\* the chunk lists handed to format_chunk_data: one chunk with import lines,
\* parent blocks and content, or without the two lists as the line-based and
\* notebook chunks are, and the pairs of the latter
FormatCalls ==
    LET import_lines == {<<>>, << <<"i">> >>, << <<"i">>, <<"j">> >>, << PLACEHOLDER_TEXT >>}
        parent_blocks ==
            {<<"c", ":">>, <<" ", "c", ":", "\n", "x">>, <<"d", ":">>, <<"\n", "c", ":">>,
             <<" ", "\n", "c", ":">>, PLACEHOLDER_TEXT}
        contents ==
            {<<>>, <<"\n">>, <<" ">>, <<"x">>, <<"c", ":", "\n", "x">>,
             <<"\n", "\n", " ", "c", ":">>, <<" ", "\n", "c", ":">>, <<"d", ":", " ", "\n">>,
             PLACEHOLDER_TEXT}
        full_chunks ==
            { [import_lines |-> i, parent_context_text |-> p, content |-> c,
               metadata |-> [chunk_id |-> <<"f">>]] :
                i \in import_lines, p \in SeqsUpTo(parent_blocks, 2), c \in contents }
        bare_chunks == { [content |-> c, metadata |-> [chunk_id |-> <<"f">>]] : c \in contents }
    IN { <<chunk>> : chunk \in full_chunks \cup bare_chunks }
       \cup { <<a, b>> : a \in bare_chunks, b \in bare_chunks }

\* the arguments of chunk_notebook_cells: a notebook of one cell, every
\* source of x's and newlines up to MaxSourceLen characters, under every small
\* max_chars, zero and negative included (split_code and process_code_for_rag
\* hand max_chars through as it comes)
MaxSourceLen == 5

CellCalls ==
    { [cell |-> [cell_type |-> "code", source |-> src], max_chars |-> m] :
        src \in SeqsUpTo({"x", "\n"}, MaxSourceLen) \ {<<>>},
        m \in (-2)..MaxSourceLen }

\* the slicing loop is followed for at most MaxSlices iterations
MaxSlices == 7

CallInit ==
    /\ language_name = "klingon"
    /\ tree = <<>>
    /\ has_error = FALSE
    /\ coalesce = DEFAULT_COALESCE
    /\ byte_chunks = <<>>
    /\ filled_chunks = <<>>
    /\ coalesced_chunks = <<>>
    /\ byte_spans = <<>>
    /\ chunking_error = "none"
    /\ full_formatted_text = None
    /\ structured_data_list = None
    /\ error_message = None
    /\ NoBatch
    /\ file_path = InRepoPath.file_path
    /\ repo_name = InRepoPath.repo
    /\ \/ \E call \in LineCalls :
            /\ code_content = call.code_content
            /\ chunk_size = call.chunk_size
            /\ overlap = call.overlap
            /\ include_tokens = FALSE
            /\ chunks = <<>>
            /\ cells = <<>>
            /\ MAX_CHARS = DEFAULT_MAX_CHARS
            /\ pc = "chunk_by_lines"
       \/ \E call \in FormatCalls, tokens \in BOOLEAN :
            /\ code_content = <<>>
            /\ chunk_size = DEFAULT_FALLBACK_CHUNK_SIZE
            /\ overlap = DEFAULT_FALLBACK_OVERLAP
            /\ include_tokens = tokens
            /\ chunks = call
            /\ cells = <<>>
            /\ MAX_CHARS = DEFAULT_MAX_CHARS
            /\ pc = "format_chunk_data"
       \/ \E call \in CellCalls :
            /\ code_content = NotebookObject
            /\ chunk_size = DEFAULT_FALLBACK_CHUNK_SIZE
            /\ overlap = DEFAULT_FALLBACK_OVERLAP
            /\ include_tokens = FALSE
            /\ chunks = <<>>
            /\ cells = <<call.cell>>
            /\ MAX_CHARS = call.max_chars
            /\ pc = "chunk_notebook_cells"

\* chunk_by_lines(code_content, file_metadata, chunk_size, overlap)
CallChunkByLines ==
    /\ pc = "chunk_by_lines"
    /\ LET r == chunk_by_lines(code_content, file_metadata, chunk_size, overlap)
       IN /\ chunks' = r.chunks
          /\ chunking_error' = IF r.error THEN "error_record" ELSE "none"
    /\ pc' = "lines_returned"
    /\ UNCHANGED <<inputs, batch, registry, returned, byte_chunks, filled_chunks, coalesced_chunks, byte_spans>>

\* format_chunk_data(chunk_data_list, include_tokens): the list handed in is
\* read, never written (the parent list is copied before the pop)
CallFormatChunkData ==
    /\ pc = "format_chunk_data"
    /\ LET formatted == format_chunk_data(chunks, include_tokens)
       IN /\ full_formatted_text' = formatted.full_formatted_text
          /\ structured_data_list' = formatted.structured_data_list
    /\ pc' = "format_returned"
    /\ UNCHANGED <<inputs, batch, registry, byte_chunks, filled_chunks, coalesced_chunks, byte_spans, chunks,
                   chunking_error, error_message>>

\* chunk_notebook_cells on the one cell, up to the while loop: a blank cell is
\* skipped, a cell of at most max_chars characters is one chunk
CallChunkNotebookCells ==
    /\ pc = "chunk_notebook_cells"
    /\ IF IsBlank(cells[1].source) \/ Len(cells[1].source) <= MAX_CHARS
       THEN /\ chunks' = cell_chunks(cells[1], 0, file_metadata, MAX_CHARS)
            /\ pc' = "cells_returned"
       ELSE /\ chunks' = <<>>
            /\ pc' = "slicing"
    /\ UNCHANGED <<inputs, batch, registry, returned, byte_chunks, filled_chunks, coalesced_chunks, byte_spans,
                   chunking_error>>

\* the loop variable start: the end of the slice taken last (byte_spans holds
\* the slices [start, end) taken so far, sub_chunk_index is their number)
start == IF byte_spans = <<>> THEN 0 ELSE Last(byte_spans).end

\* one iteration of "while start < cell_len"
SliceCell ==
    /\ pc = "slicing"
    /\ start < Len(cells[1].source)
    /\ Len(byte_spans) < MaxSlices
    /\ LET step == slice_step(cells[1].source, start, MAX_CHARS)
           chunk == [content |-> step.sub_content,
                     metadata |-> cell_metadata(file_metadata, cells[1].cell_type, 0,
                                                Len(byte_spans), step.start_line_in_cell,
                                                step.end_line_in_cell)]
       IN /\ byte_spans' = Append(byte_spans, [start |-> start, end |-> step.end])
          /\ chunks' = IF ~IsBlank(step.sub_content) THEN Append(chunks, chunk) ELSE chunks
    /\ UNCHANGED <<inputs, batch, registry, returned, byte_chunks, filled_chunks, coalesced_chunks,
                   chunking_error, pc>>

\* the loop ends and chunk_notebook_cells returns
ReturnCells ==
    /\ pc = "slicing"
    /\ start >= Len(cells[1].source)
    /\ pc' = "cells_returned"
    /\ UNCHANGED <<inputs, batch, registry, returned, byte_chunks, filled_chunks, coalesced_chunks, byte_spans,
                   chunks, chunking_error>>

CallNext ==
    \/ CallChunkByLines
    \/ CallFormatChunkData
    \/ CallChunkNotebookCells
    \/ SliceCell
    \/ ReturnCells

CallSpec == CallInit /\ [][CallNext]_vars

\* ------------------------------------- lambda_code_updater.py: the batch
\* process_updated_files starts one process_single_file per changed file and
\* gathers them; each one holds the semaphore from its first statement to its
\* return.  The event loop runs one coroutine at a time, so what a coroutine
\* does between two awaits is one step; the chunking of split_code_async runs
\* on a worker thread (asyncio.to_thread), concurrently with the event loop
\* and with the other worker threads.
MaxFiles == 6

\* files_to_process = added_files + modified_files: for each changed file of
\* a push, its path in the repository, the language get_language_from_extension
\* infers and whether the file is in the clone.  transform_github_webhook_to_
\* lambda_event removes the duplicates of each list on its own, so a path can
\* occur twice, once as added and once as modified (file "m").
\* The batches are n consecutive files of a listing, taken cyclically
Batches ==
    LET changed_files ==
            <<[inferred_language |-> "python", exists |-> TRUE, path |-> <<"m">>],
              [inferred_language |-> "klingon", exists |-> TRUE, path |-> <<"k">>],
              [inferred_language |-> "python", exists |-> TRUE, path |-> <<"m">>],
              [inferred_language |-> "php", exists |-> TRUE, path |-> <<"a", "/", "p">>],
              [inferred_language |-> "python", exists |-> FALSE, path |-> <<"g">>],
              [inferred_language |-> "php", exists |-> TRUE, path |-> <<"b", "/", "p">>],
              [inferred_language |-> "markdown", exists |-> TRUE, path |-> <<"d">>]>>
    IN {[i \in 1..n |-> changed_files[((i + offset - 1) % Len(changed_files)) + 1]] :
           n \in 0..MaxFiles, offset \in 0..(Len(changed_files) - 1)}

\* the files whose task is inside "async with semaphore": its chunking is on
\* a worker thread, or its coroutine awaits the indexing
InSection == {i \in DOMAIN task_pc : task_pc[i] \in {"thread", "entry_written", "indexing"}}

\* the files whose chunking is running on a worker thread
OnWorkerThread == {i \in DOMAIN task_pc : task_pc[i] \in {"thread", "entry_written"}}

\* the chunking of the file goes through the parser of its language
UsesParser(file) ==
    /\ file.inferred_language \in RegisteredLanguages
    /\ LANGUAGE_NODE_TYPES(file.inferred_language).has_parser

\* the module-level objects a pipeline writes or parses with: the entry of
\* its language in LANGUAGE_NODE_TYPES and the parser kept in that entry
shared_objects_of(file) ==
    IF UsesParser(file)
    THEN {<<"LANGUAGE_NODE_TYPES", file.inferred_language>>,
          <<"parser", file.inferred_language>>}
    ELSE {}

\* os.path.join('/tmp/repos', repo_name.replace('/', '_')) and the file in it
\* (the repository names of the model hold no slash)
full_path_of(path, repo) ==
    <<"/", "t", "m", "p", "/", "r", "e", "p", "o", "s", "/">> \o repo \o <<"/">> \o path

\* os.path.dirname of a path without doubled slashes
dirname(path) ==
    LET slashes == {i \in DOMAIN path : path[i] = "/"}
        last_slash == CHOOSE i \in slashes : \A j \in slashes : i >= j
    IN IF slashes = {} THEN <<>>
       ELSE IF last_slash = 1 THEN <<"/">>
       ELSE SubSeq(path, 1, last_slash - 1)

\* hay.split(needle)[1] when needle occurs in hay: the text between its first
\* and its second occurrence
second_part(hay, needle) ==
    LET rest == SubSeq(hay, FindSub(hay, needle) + Len(needle) + 1, Len(hay))
    IN IF FindSub(rest, needle) = -1 THEN rest ELSE SubSeq(rest, 1, FindSub(rest, needle))

\* str.lstrip('/')
lstrip_slashes(s) ==
    LET kept == {i \in DOMAIN s : s[i] # "/"}
    IN IF kept = {} THEN <<>>
       ELSE SubSeq(s, CHOOSE i \in kept : \A j \in kept : i <= j, Len(s))

get_relative_file_path(full_path, repo) ==
    LET after_repo == second_part(full_path, repo)
        repo_dir == basename(dirname(full_path))
    IN IF FindSub(full_path, repo) # -1 /\ after_repo # <<>> /\ after_repo[1] = "/"
       THEN lstrip_slashes(after_repo)
       ELSE IF repo_dir # <<>> /\ FindSub(full_path, repo_dir \o <<"/">>) # -1
       THEN second_part(full_path, repo_dir \o <<"/">>)
       ELSE basename(full_path)

\* metadata['file_path'] of the documents process_file_and_get_documents
\* makes of the file at path
stored_file_path(path, repo) ==
    normalized_file_path(get_relative_file_path(full_path_of(path, repo), repo), repo)

\* the documents of the file at path, as the index tells them apart: by the
\* file they were made of and by their metadata['file_path']
documents_of(path, repo) == [path |-> path, file_path |-> stored_file_path(path, repo)]

\* delete_by_query with a term query on metadata.file_path: opensearch_index
\* maps the documents of a file to the number of copies the index holds
delete_chunks_by_metadata(entries, stored_path) ==
    [d \in DOMAIN entries |-> IF d.file_path = stored_path THEN 0 ELSE entries[d]]

\* the stored paths the second deletion of process_single_file can pick:
\* file_path of the first chunk of the repository whose file_path contains
\* the name of the file (the index of the model holds fewer than the 100
\* chunks the search returns, in an order the query does not fix)
matching_stored_paths(entries, path) ==
    { d.file_path :
        d \in { e \in DOMAIN entries :
                  entries[e] > 0 /\ FindSub(e.file_path, basename(path)) # -1 } }

\* the index after "Always delete existing chunks first": what the deletion by
\* f"{repo_name}/{file_path}" leaves, or, if that deleted nothing, what the
\* deletion by one of the matching stored paths leaves
indexes_after_deletion(entries, path, repo) ==
    LET by_filter == delete_chunks_by_metadata(entries, repo \o <<"/">> \o path)
    IN IF by_filter # entries THEN {by_filter}
       ELSE IF matching_stored_paths(entries, path) = {} THEN {entries}
       ELSE { delete_chunks_by_metadata(entries, stored) :
                stored \in matching_stored_paths(entries, path) }

\* vector_store.aadd_documents with the documents of the file
add_documents(entries, path, repo) == [entries EXCEPT ![documents_of(path, repo)] = @ + 1]

\* Semaphore.acquire does not wait when the value is positive
can_acquire_unbounded(value) == TRUE

can_acquire(value) == value > 0

BatchInit ==
    /\ files_to_process \in Batches
    /\ concurrent_limit \in {1, 2, CONCURRENT_FILE_LIMIT}
    /\ semaphore = concurrent_limit
    /\ task_pc = [i \in DOMAIN files_to_process |-> "waiting"]
    /\ registry = [l \in ParserLanguages |-> None]
    /\ opensearch_index \in
          { [d \in {documents_of(files_to_process[i].path, InRepoPath.repo) :
                      i \in DOMAIN files_to_process} |-> n] : n \in 0..1 }
    /\ language_name = "klingon"
    /\ code_content = <<>>
    /\ tree = <<>>
    /\ has_error = FALSE
    /\ cells = <<>>
    /\ include_tokens = FALSE
    /\ MAX_CHARS = DEFAULT_MAX_CHARS
    /\ coalesce = DEFAULT_COALESCE
    /\ chunk_size = DEFAULT_FALLBACK_CHUNK_SIZE
    /\ overlap = DEFAULT_FALLBACK_OVERLAP
    /\ file_path = InRepoPath.file_path
    /\ repo_name = InRepoPath.repo
    /\ pc = "batch"
    /\ NothingComputed

\* "if not os.path.exists(full_path): return Exception(...)": the semaphore
\* is taken and given back without an await in between
FileNotFound(i) ==
    /\ task_pc[i] = "waiting"
    /\ can_acquire(semaphore)
    /\ ~files_to_process[i].exists
    /\ task_pc' = [task_pc EXCEPT ![i] = "done"]
    /\ UNCHANGED <<inputs, returned, byte_chunks, filled_chunks, coalesced_chunks, byte_spans,
                   chunks, chunking_error, pc, files_to_process, concurrent_limit,
                   semaphore, registry,
                   opensearch_index>>

\* process_single_file from "async with semaphore" to the asyncio.to_thread of
\* split_code_async: the old chunks are deleted, the file is read, and the
\* chunking is handed to a worker thread
AcquireAndStartThread(i) ==
    /\ task_pc[i] = "waiting"
    /\ can_acquire(semaphore)
    /\ files_to_process[i].exists
    /\ semaphore' = semaphore - 1
    /\ task_pc' = [task_pc EXCEPT ![i] = "thread"]
    /\ opensearch_index' \in indexes_after_deletion(opensearch_index, files_to_process[i].path,
                                                     repo_name)
    /\ UNCHANGED <<inputs, returned, byte_chunks, filled_chunks, coalesced_chunks, byte_spans,
                   chunks, chunking_error, pc, files_to_process, concurrent_limit, registry>>

\* on the worker thread, process_code_for_rag:
\* "language_config['language_name'] = language_name"
WriteRegistryEntry(i) ==
    /\ task_pc[i] = "thread"
    /\ UsesParser(files_to_process[i])
    /\ registry' = store_language_name(registry, files_to_process[i].inferred_language)
    /\ task_pc' = [task_pc EXCEPT ![i] = "entry_written"]
    /\ UNCHANGED <<inputs, returned, byte_chunks, filled_chunks, coalesced_chunks, byte_spans,
                   chunks, chunking_error, pc, files_to_process, concurrent_limit, semaphore,
                   opensearch_index>>

\* on the worker thread, the rest of process_code_for_rag: parser.parse with
\* the parser of the entry and the chunking; the coroutine then formats the
\* chunks and awaits vector_store.aadd_documents
ParseAndChunk(i) ==
    /\ task_pc[i] = "entry_written"
    /\ task_pc' = [task_pc EXCEPT ![i] = "indexing"]
    /\ UNCHANGED <<inputs, returned, byte_chunks, filled_chunks, coalesced_chunks, byte_spans,
                   chunks, chunking_error, pc, files_to_process, concurrent_limit,
                   semaphore, registry,
                   opensearch_index>>

\* on the worker thread, chunk_by_lines: for a file of unknown language
\* (use_fallback) or of a language without parser
ChunkByLinesInThread(i) ==
    /\ task_pc[i] = "thread"
    /\ ~UsesParser(files_to_process[i])
    /\ task_pc' = [task_pc EXCEPT ![i] = "indexing"]
    /\ UNCHANGED <<inputs, returned, byte_chunks, filled_chunks, coalesced_chunks, byte_spans,
                   chunks, chunking_error, pc, files_to_process, concurrent_limit,
                   semaphore, registry,
                   opensearch_index>>

\* aadd_documents has returned; process_single_file returns and the
\* "async with" gives the semaphore back
IndexAndRelease(i) ==
    /\ task_pc[i] = "indexing"
    /\ semaphore' = semaphore + 1
    /\ task_pc' = [task_pc EXCEPT ![i] = "done"]
    /\ opensearch_index' = add_documents(opensearch_index, files_to_process[i].path, repo_name)
    /\ UNCHANGED <<inputs, returned, byte_chunks, filled_chunks, coalesced_chunks, byte_spans,
                   chunks, chunking_error, pc, files_to_process, concurrent_limit, registry>>

BatchNext ==
    \/ \E i \in DOMAIN task_pc : FileNotFound(i)
    \/ \E i \in DOMAIN task_pc : AcquireAndStartThread(i)
    \/ \E i \in DOMAIN task_pc : WriteRegistryEntry(i)
    \/ \E i \in DOMAIN task_pc : ParseAndChunk(i)
    \/ \E i \in DOMAIN task_pc : ChunkByLinesInThread(i)
    \/ \E i \in DOMAIN task_pc : IndexAndRelease(i)

BatchSpec == BatchInit /\ [][BatchNext]_vars


\* ------------------------------------------------------------- properties
root_node == tree[RootId]

\* the file went through the tree-sitter stages and process_code_for_rag returned
TreeSitterDone == pc = "done" /\ ParsedFile

\* "".join(chunk["content"] for chunk in chunks)
JoinedContent == Concat([i \in DOMAIN chunks |-> chunks[i].content])

\* the bytes of the emitted chunks' spans, in emission order
JoinedSpans ==
    Concat([i \in DOMAIN chunks |-> extract_bytes(chunks[i].byte_span, code_content)])

\* the emitted spans tile the file: first starts at 0, each starts where the
\* one before ends, the last ends at the end of the text
SpansTileFile ==
    /\ chunks # <<>>
    /\ chunks[1].byte_span.start = 0
    /\ Last(chunks).byte_span.end = Len(code_content)
    /\ \A i \in 1 .. (Len(chunks) - 1) :
          chunks[i].byte_span.end = chunks[i + 1].byte_span.start

SpansReturned == pc \in {"spans", "assembled", "done"} /\ ParsedFile

\* byte b (0-based) lies in a returned span
Covered(b) == \E i \in DOMAIN byte_spans : byte_spans[i].start <= b /\ b < byte_spans[i].end

RootBytes == root_node.start_byte .. (root_node.end_byte - 1)

\* C2, as stated: the spans create_byte_spans returns cover every byte of the
\* root node's range, also for a file longer than MAX_CHARS.
C2_EveryByteCovered == SpansReturned => \A b \in RootBytes : Covered(b)

\* C2, as the program behaves: the spans create_byte_spans returns cover every
\* non-whitespace byte of the root node's range, also for a file longer than
\* MAX_CHARS; a byte of the range that no span covers is whitespace (it lay in
\* a span the final filter discarded as whitespace-only).
C2_EveryNonWhitespaceByteCovered ==
    SpansReturned =>
        \A b \in RootBytes : code_content[b + 1] \notin WhitespaceChars => Covered(b)

\* C2 witness: a file longer than MAX_CHARS, several spans returned, a span
\* discarded by the final filter and a byte of the root left uncovered
C2_Witness ==
    /\ SpansReturned
    /\ Len(code_content) > MAX_CHARS
    /\ Len(byte_spans) >= 2
    /\ Len(byte_spans) < Len(coalesced_chunks)
    /\ \E b \in RootBytes : ~Covered(b)

\* _chunk_tree_recursive has returned
TreeChunked == pc # "start" /\ ParsedFile

\* C3: on a tree whose children are in source order, pairwise disjoint and
\* inside their parent, the spans of _chunk_tree_recursive are ordered by
\* start, pairwise non-overlapping, and inside the root's byte range.
C3_RecursiveSpansOrderedDisjoint ==
    TreeChunked =>
        /\ \A i \in DOMAIN byte_chunks :
              /\ root_node.start_byte <= byte_chunks[i].start
              /\ byte_chunks[i].start <= byte_chunks[i].end
              /\ byte_chunks[i].end <= root_node.end_byte
        /\ \A i \in 1 .. (Len(byte_chunks) - 1) :
              /\ byte_chunks[i].start <= byte_chunks[i + 1].start
              /\ byte_chunks[i].end <= byte_chunks[i + 1].start

\* C3 witness: the builder recursed into a child longer than MAX_CHARS that has
\* children of its own, and returned three spans or more
C3_Witness ==
    /\ pc = "chunked"
    /\ Len(byte_chunks) >= 3
    /\ \E c \in SeqToSet(Children(tree, RootId)) :
          /\ tree[c].end_byte - tree[c].start_byte > MAX_CHARS
          /\ Children(tree, c) # <<>>

\* C4: within one file no two emitted chunks have the same chunk_id
\* "<normalized_file_path>-L<start_line>-L<end_line>", also when two
\* consecutive chunks start and end on the same source lines.
C4_ChunkIdsUnique ==
    pc = "done" =>
        \A i, j \in DOMAIN chunks :
            i # j => chunks[i].metadata.chunk_id # chunks[j].metadata.chunk_id

\* C5: in every chunking mode the n emitted chunks carry metadata.chunk_index
\* 0, 1, ..., n - 1 in emission order.
C5_ChunkIndexIsPosition ==
    pc = "done" =>
        \A i \in DOMAIN chunks :
            /\ "chunk_index" \in DOMAIN chunks[i].metadata
            /\ chunks[i].metadata.chunk_index = i - 1

\* C6: no chunk emitted by split_code, in any chunking mode, has content made
\* of whitespace only.
C6_NoWhitespaceOnlyChunk ==
    pc = "done" => \A i \in DOMAIN chunks : ~IsBlank(chunks[i].content)

\* the text whose lines a chunk's start_line and end_line count: the source of
\* the chunk's cell for a notebook chunk, the file otherwise
LineBase(chunk) ==
    IF "original_cell_index" \in DOMAIN chunk.metadata
    THEN cells[chunk.metadata.original_cell_index + 1].source
    ELSE code_content

\* C7: for every emitted chunk in every mode, 1 <= start_line <= end_line <=
\* total_lines, the number of lines of the file (of the cell's source for a
\* notebook chunk).
C7_LineRangeWithinText ==
    pc = "done" =>
        \A i \in DOMAIN chunks :
            /\ 1 <= chunks[i].metadata.start_line
            /\ chunks[i].metadata.start_line <= chunks[i].metadata.end_line
            /\ chunks[i].metadata.end_line <= Len(splitlines(LineBase(chunks[i])))

\* the global imports of the file
all_imports == find_all_import_nodes(tree, language_config, code_content)

\* a global import registers the wildcard sentinel
HasWildcardImport ==
    \E k \in DOMAIN all_imports.nodes :
        <<"*">> \in imported_names_in_node(tree, all_imports.nodes[k], code_content)

\* the names referenced by the identifiers that lie inside the span
NamesReferencedIn(span) ==
    { get_node_text(tree, n, code_content) :
        n \in { m \in DOMAIN tree :
                  /\ tree[m].type \in language_config.identifier_types
                  /\ span.start <= tree[m].start_byte
                  /\ tree[m].end_byte <= span.end } }

\* the global import lines whose statement binds a name referenced in the span
ImportLinesUsedIn(span) ==
    LET ks == SortedSeq({ k \in DOMAIN all_imports.nodes :
                  imported_names_in_node(tree, all_imports.nodes[k], code_content)
                      \cap NamesReferencedIn(span) # {} })
    IN [j \in DOMAIN ks |-> all_imports.lines[ks[j]]]

\* C8: when no global import is a wildcard, the import filter returns, in
\* original order, exactly the global import lines of the import statements
\* that bind a name referenced by an identifier inside the chunk's byte span.
C8_ImportsAreThoseUsed ==
    (TreeSitterDone /\ ~HasWildcardImport) =>
        \A i \in DOMAIN chunks :
            chunks[i].import_lines = ImportLinesUsedIn(chunks[i].byte_span)

\* C9: when a global import registers the wildcard sentinel "*", the
\* import_lines of every chunk of the file are the complete list of global
\* import lines in original order.
C9_WildcardKeepsEveryImport ==
    (TreeSitterDone /\ HasWildcardImport) =>
        \A i \in DOMAIN chunks : chunks[i].import_lines = all_imports.lines

\* C9 witness: a file with a wildcard import among several imports, cut into
\* several chunks, one of which references no imported name
C9_Witness ==
    /\ TreeSitterDone
    /\ HasWildcardImport
    /\ Len(all_imports.lines) >= 2
    /\ Len(chunks) >= 2
    /\ \E i \in DOMAIN chunks :
          /\ ImportLinesUsedIn(chunks[i].byte_span) = <<>>
          /\ chunks[i].import_lines = all_imports.lines

\* the containers whose byte range encloses the whole span
EnclosingContainers(span) ==
    { a \in DOMAIN tree : /\ tree[a].type \in language_config.containers
                          /\ encompasses_span(tree[a], span) }

\* C10: each entry of a tree-sitter chunk's parent_context_spans is the
\* signature line range of a container whose byte range encloses the chunk's
\* whole byte span, and the entries run from the outermost container inwards.
C10_ParentSpansEncloseChunk ==
    TreeSitterDone =>
        \A i \in DOMAIN chunks :
            LET spans == chunks[i].parent_context_spans
            IN /\ \A k \in DOMAIN spans :
                     \E a \in EnclosingContainers(chunks[i].byte_span) :
                         signature_span(tree, a, language_config, code_content) = spans[k]
               /\ \A k \in 1 .. (Len(spans) - 1) : spans[k][1] <= spans[k + 1][1]

\* the positions at which repo_name occurs in file_path
RepoOccurrences ==
    {i \in 1..(Len(file_path) - Len(repo_name) + 1) :
        SubSeq(file_path, i, i + Len(repo_name) - 1) = repo_name}

\* the suffix of the path from the first occurrence of the repository name,
\* or "<repo>/<basename>" when the name does not occur
NormalizedPath ==
    IF RepoOccurrences # {}
    THEN SubSeq(file_path, CHOOSE i \in RepoOccurrences : \A j \in RepoOccurrences : i <= j,
                Len(file_path))
    ELSE repo_name \o <<"/">> \o basename(file_path)

IsPrefixOf(prefix, text) ==
    Len(prefix) <= Len(text) /\ SubSeq(text, 1, Len(prefix)) = prefix

\* C11: in every mode (tree-sitter, line-based, notebook) each emitted chunk has
\* metadata.file_path equal to the normalized path, and its chunk_id starts
\* with that same normalized path.
C11_FilePathNormalized ==
    pc = "done" =>
        \A i \in DOMAIN chunks :
            /\ chunks[i].metadata.file_path = NormalizedPath
            /\ IsPrefixOf(NormalizedPath \o <<"-">>, chunks[i].metadata.chunk_id)

\* the cases that go to the line fallback: the language is not registered, it
\* is registered without a parser, or the parser reports an error tree
UnknownLanguage == use_fallback
NoParser == ~use_fallback /\ language_name # "Jupyter Notebook" /\ ~language_config.has_parser
ParseError == ~use_fallback /\ language_config.has_parser /\ has_error
FallsBackToLines == UnknownLanguage \/ NoParser \/ ParseError

\* C12: when the language is unknown, has no parser, or the parser reports an
\* error tree, split_code returns a success (error_message is None, text and
\* chunks are present) and every returned chunk has chunking_method "line-based".
C12_FallbackSucceedsLineBased ==
    (pc = "returned" /\ FallsBackToLines) =>
        /\ error_message = None
        /\ full_formatted_text # None
        /\ structured_data_list # None
        /\ \A i \in DOMAIN structured_data_list[1] :
               structured_data_list[1][i].metadata.chunking_method = "line-based"

\* a file that the parser rejects comes back as line-based chunks
C12_Witness ==
    /\ pc = "returned"
    /\ ParseError
    /\ error_message = None
    /\ structured_data_list # None
    /\ structured_data_list[1] # <<>>
    /\ structured_data_list[1][1].metadata.chunking_method = "line-based"

\* the two other fallback cases return chunks as well
C12_WitnessUnknownLanguage ==
    pc = "returned" /\ UnknownLanguage /\ structured_data_list # None
    /\ Len(structured_data_list[1]) = 2

C12_WitnessNoParser ==
    pc = "returned" /\ NoParser /\ structured_data_list # None
    /\ Len(structured_data_list[1]) = 2

\* chunk_by_lines has returned from a direct call
LinesReturned == pc = "lines_returned"

\* the parameters violate 0 <= overlap < chunk_size
InvalidLineParameters == ~(0 <= overlap /\ overlap < chunk_size)

\* C13 as stated: whenever the parameters violate 0 <= overlap < chunk_size,
\* chunk_by_lines returns the single error record and no chunk, for every
\* content (the empty one included) and every chunk_size (<= 0 included).
C13_InvalidParametersGiveErrorRecord ==
    (LinesReturned /\ InvalidLineParameters) =>
        chunking_error = "error_record" /\ chunks = <<>>

\* C13, amended: whenever the parameters violate 0 <= overlap < chunk_size,
\* chunk_by_lines emits no chunk; it returns the single error record exactly
\* when the content is not empty and chunk_size > 0, and the empty list for
\* empty content or chunk_size <= 0.
C13_InvalidOverlapGivesErrorRecord ==
    (LinesReturned /\ InvalidLineParameters) =>
        /\ chunks = <<>>
        /\ chunking_error = "error_record" <=> (code_content # <<>> /\ chunk_size > 0)

\* a non-empty file, a positive chunk_size and an overlap that is too large
C13_Witness ==
    /\ LinesReturned
    /\ code_content # <<>>
    /\ chunk_size > 0
    /\ overlap >= chunk_size
    /\ chunking_error = "error_record"
    /\ chunks = <<>>

\* the two shapes of the returned tri-tuple
SuccessShape ==
    full_formatted_text # None /\ structured_data_list # None /\ error_message = None

FailureShape ==
    full_formatted_text = None /\ structured_data_list = None /\ error_message # None

C14_WitnessSuccess ==
    pc = "returned" /\ ParsedFile /\ SuccessShape /\ structured_data_list[1] # <<>>

\* the number of lines of a text: its newlines, and the unterminated last line
LineCount(text) ==
    count_newlines(text) + (IF text # <<>> /\ Last(text) # "\n" THEN 1 ELSE 0)

ValidLineParameters == 0 <= overlap /\ overlap < chunk_size

\* the k >= 0 with k * (chunk_size - overlap) < n
WindowIndices(n) == {k \in 0..n : k * (chunk_size - overlap) < n}

\* C15: for a file of n lines and 0 <= overlap < chunk_size, chunk_by_lines
\* emits exactly one chunk for each k >= 0 with k*(chunk_size-overlap) < n, in
\* that order, the k-th covering the lines k*(chunk_size-overlap)+1 through
\* min(k*(chunk_size-overlap)+chunk_size, n).
C15_OneWindowPerStep ==
    (LinesReturned /\ ValidLineParameters) =>
        LET n == LineCount(code_content)
            step == chunk_size - overlap
        IN /\ chunking_error = "none"
           /\ Len(chunks) = Cardinality(WindowIndices(n))
           /\ \A k \in WindowIndices(n) :
                /\ k + 1 \in DOMAIN chunks
                /\ chunks[k + 1].metadata.start_line = k * step + 1
                /\ chunks[k + 1].metadata.end_line = Min(k * step + chunk_size, n)

\* the example: 100 lines, chunk_size 40, overlap 15 give the start lines
\* 1, 26, 51, 76 and a last chunk over the lines 76-100
C15_Witness ==
    /\ LinesReturned
    /\ LineCount(code_content) = 100
    /\ chunk_size = 40
    /\ overlap = 15
    /\ Len(chunks) = 4
    /\ [i \in 1..4 |-> chunks[i].metadata.start_line] = <<1, 26, 51, 76>>
    /\ chunks[4].metadata.end_line = 100

\* C16: every chunk split_code emits for a notebook file has chunking_method
\* "notebook", a cell_type, an original_cell_index, and a chunk_id of the form
\* "<file>-cell<i>-<sub>" with i the index of its cell.
C16_NotebookChunkMetadata ==
    (pc = "returned" /\ language_name = "Jupyter Notebook" /\ structured_data_list # None) =>
        \A n \in DOMAIN structured_data_list[1] :
            LET metadata == structured_data_list[1][n].metadata
            IN /\ metadata.chunking_method = "notebook"
               /\ {"cell_type", "original_cell_index", "chunk_id"} \subseteq DOMAIN metadata
               /\ metadata.original_cell_index \in 0..(Len(cells) - 1)
               /\ metadata.cell_type = cells[metadata.original_cell_index + 1].cell_type
               /\ \E sub \in 0..Len(cells[metadata.original_cell_index + 1].source),
                     file \in {file_path, NormalizedPath} :
                       metadata.chunk_id = cell_chunk_id(file, metadata.original_cell_index, sub)

\* the same without the chunking_method
C16_NotebookCellFields ==
    (pc = "returned" /\ language_name = "Jupyter Notebook" /\ structured_data_list # None) =>
        \A n \in DOMAIN structured_data_list[1] :
            LET metadata == structured_data_list[1][n].metadata
            IN /\ {"cell_type", "original_cell_index", "chunk_id"} \subseteq DOMAIN metadata
               /\ metadata.original_cell_index \in 0..(Len(cells) - 1)
               /\ metadata.cell_type = cells[metadata.original_cell_index + 1].cell_type
               /\ \E sub \in 0..Len(cells[metadata.original_cell_index + 1].source),
                     file \in {file_path, NormalizedPath} :
                       metadata.chunk_id = cell_chunk_id(file, metadata.original_cell_index, sub)

\* format_chunk_data has returned from a direct call
FormatReturned == pc = "format_returned"

\* the non-empty sections of a chunk in the fixed order imports, parent
\* context, content
NonEmptySections(chunk_dict) ==
    LET sections == sections_of(chunk_dict)
    IN SelectSeq(<<sections.imports, sections.parent_context, sections.content>>,
                 LAMBDA section : section # <<>>)

\* the sections joined with one sentinel line between consecutive sections
JoinedBySentinel(sections) == Join(sections, <<"\n">> \o PLACEHOLDER_TEXT \o <<"\n">>)

\* C17: in placeholder mode (include_tokens false) the block of a chunk with
\* k >= 1 non-empty sections is those sections in the order imports, parent
\* context, content, joined by newlines with exactly one sentinel line between
\* consecutive sections and none before the first or after the last.
C17_SectionsJoinedBySentinel ==
    (FormatReturned /\ ~include_tokens) =>
        \A i \in DOMAIN chunks :
            NonEmptySections(chunks[i]) # <<>> =>
                structured_data_list[i].formatted_chunk_block
                    = JoinedBySentinel(NonEmptySections(chunks[i]))

\* the same for the chunks none of whose sections is the sentinel text itself
C17_SectionsJoinedUnlessSentinelText ==
    (FormatReturned /\ ~include_tokens) =>
        \A i \in DOMAIN chunks :
            (/\ NonEmptySections(chunks[i]) # <<>>
             /\ \A k \in DOMAIN NonEmptySections(chunks[i]) :
                    NonEmptySections(chunks[i])[k] # PLACEHOLDER_TEXT) =>
                structured_data_list[i].formatted_chunk_block
                    = JoinedBySentinel(NonEmptySections(chunks[i]))

\* the parent blocks of chunks[i], and all of them but the last
ParentBlocks(i) ==
    IF "parent_context_text" \in DOMAIN chunks[i] THEN chunks[i].parent_context_text ELSE <<>>

\* what is rendered of the parent blocks of chunks[i]
RenderedParents(i) == processed_parent_list_of(ParentBlocks(i), chunks[i].content)

AllButLast(blocks) == SubSeq(blocks, 1, Len(blocks) - 1)

\* the call of format_chunk_data, as a step
FormatStep == pc = "format_chunk_data" /\ pc' = "format_returned"

\* C18 as stated: the formatter drops the last parent block if and only if the
\* stripped first line of that block equals the stripped first line of the
\* chunk content; it drops no other block and leaves the record's list unchanged.
C18_DropsLastParentIffFirstLinesEqual ==
    [][FormatStep =>
         /\ chunks' = chunks
         /\ \A i \in DOMAIN chunks :
              RenderedParents(i) =
                  IF ParentBlocks(i) # <<>>
                     /\ first_line_stripped(Last(ParentBlocks(i)))
                            = first_line_stripped(chunks[i].content)
                  THEN AllButLast(ParentBlocks(i))
                  ELSE ParentBlocks(i)]_vars

\* C18, amended: the formatter drops the last parent block if and only if the
\* stripped first line of that block is not empty and equals the stripped
\* first line of the chunk content taken after its leading newlines; it drops
\* no other block and leaves the record's list unchanged.
C18_DropsLastParentIffSignatureRepeated ==
    [][FormatStep =>
         /\ chunks' = chunks
         /\ \A i \in DOMAIN chunks :
              RenderedParents(i) =
                  IF ParentBlocks(i) # <<>>
                     /\ first_line_stripped(Last(ParentBlocks(i))) # <<>>
                     /\ first_line_stripped(Last(ParentBlocks(i)))
                            = first_line_stripped(lstrip_newlines(chunks[i].content))
                  THEN AllButLast(ParentBlocks(i))
                  ELSE ParentBlocks(i)]_vars

\* two parent blocks, the second one repeated by the first line of the
\* content: the block shows the first one only, and the record keeps both
C18_Witness ==
    /\ FormatReturned
    /\ ~include_tokens
    /\ Len(chunks) = 1
    /\ "parent_context_text" \in DOMAIN chunks[1]
    /\ chunks[1].import_lines = <<>>
    /\ chunks[1].parent_context_text = << <<"d", ":">>, <<" ", "c", ":", "\n", "x">> >>
    /\ chunks[1].content = <<"c", ":", "\n", "x">>
    /\ structured_data_list[1].formatted_chunk_block
           = JoinedBySentinel(<< <<"d", ":">>, <<"c", ":", "\n", "x">> >>)

\* C19: pipelines that run concurrently on worker threads share no mutable
\* state: no two of them reach the same entry of LANGUAGE_NODE_TYPES or the
\* same parser
C19_NoSharedMutableState ==
    \A i \in OnWorkerThread : \A j \in OnWorkerThread \ {i} :
        shared_objects_of(files_to_process[i]) \cap
            shared_objects_of(files_to_process[j]) = {}

\* C20: at no time are more than concurrent_limit files inside the per-file
\* processing section, for any number of files in the batch; the semaphore
\* counts the places that are left
C20_AtMostLimitInSection ==
    /\ Cardinality(InSection) <= concurrent_limit
    /\ semaphore = concurrent_limit - Cardinality(InSection)

\* the default limit is reached while another file is waiting
C20_Witness ==
    /\ concurrent_limit = CONCURRENT_FILE_LIMIT
    /\ Cardinality(InSection) = CONCURRENT_FILE_LIMIT
    /\ \E i \in DOMAIN task_pc : task_pc[i] = "waiting" /\ files_to_process[i].exists

\* a batch larger than a small limit, with the limit reached
C20_WitnessSmallLimit ==
    /\ concurrent_limit = 2
    /\ Len(files_to_process) = MaxFiles
    /\ Cardinality(InSection) = 2

\* the texts of the nodes of an identifier type that overlap [s, e), wherever
\* they sit in the tree
IdentifierTextsOverlapping(s, e) ==
    { t \in { get_node_text(tree, n, code_content) :
                n \in { m \in DOMAIN tree :
                          /\ tree[m].type \in language_config.identifier_types
                          /\ Overlaps(tree[m], s, e) } } :
        t # <<>> /\ ~IsBlank(t) }

\* C21: for the byte range of every chunk, the identifier extractor returns
\* the text of every node of an identifier type that overlaps the range,
\* wherever the node sits relative to the smallest node covering the start
C21_ExtractorFindsEveryOverlappingIdentifier ==
    TreeSitterDone =>
        \A i \in DOMAIN chunks :
            IdentifierTextsOverlapping(chunks[i].byte_span.start, chunks[i].byte_span.end)
              \subseteq find_identifiers_in_span(tree, chunks[i].byte_span.start,
                                                 chunks[i].byte_span.end,
                                                 language_config, code_content)

\* C22: the two sequences of the global import collector are aligned:
\* import_lines is as long as import_nodes and import_lines[i] is the text of
\* import_nodes[i], also when an import statement spans several lines
C22_ImportLinesAlignedWithNodes ==
    TreeSitterDone =>
        /\ Len(all_imports.lines) = Len(all_imports.nodes)
        /\ \A i \in DOMAIN all_imports.nodes :
              all_imports.lines[i] = strip(get_node_text(tree, all_imports.nodes[i], code_content))

\* the span is exactly one node without children
IsLeafSpan(span) ==
    \E n \in DOMAIN tree :
        /\ Children(tree, n) = <<>>
        /\ tree[n].start_byte = span.start
        /\ tree[n].end_byte = span.end

\* C23: every span of the recursive builder has a byte length of at most
\* MAX_CHARS, unless the span is a single leaf node that is itself longer
C23_SpansWithinMaxChars ==
    (ParsedFile /\ pc = "chunked") =>
        \A i \in DOMAIN byte_chunks :
            SpanLen(byte_chunks[i]) <= MAX_CHARS \/ IsLeafSpan(byte_chunks[i])

\* C24: after the gap-fill step the span list is an exact partition of the
\* root's byte range: it starts at root.start_byte, ends at root.end_byte,
\* every span is non-empty and each span ends where the next one starts
C24_FilledSpansPartitionRoot ==
    pc = "filled" =>
        /\ filled_chunks # <<>>
        /\ filled_chunks[1].start = root_node.start_byte
        /\ Last(filled_chunks).end = root_node.end_byte
        /\ \A i \in DOMAIN filled_chunks : filled_chunks[i].start < filled_chunks[i].end
        /\ \A i \in 1 .. (Len(filled_chunks) - 1) :
              filled_chunks[i].end = filled_chunks[i + 1].start

\* C24 witness: the builder left a gap before its first span and another one
\* between two of its spans, and both were filled
C24_Witness ==
    /\ pc = "filled"
    /\ \E i \in 1 .. (Len(byte_chunks) - 1) : byte_chunks[i].end < byte_chunks[i + 1].start
    /\ root_node.start_byte < byte_chunks[1].start
    /\ Len(filled_chunks) >= Len(byte_chunks) + 2

\* the three conditions under which the current span takes in the next one
MergeConditions(current, next) ==
    LET current_non_ws == non_whitespace_len(extract_bytes(current, code_content))
        added_newlines == count_newlines(extract_bytes(Span(current.start, next.end), code_content))
                            - count_newlines(extract_bytes(current, code_content))
    IN /\ current_non_ws < coalesce
       /\ 2 * (SpanLen(current) + SpanLen(next)) < 3 * MAX_CHARS
       /\ added_newlines < 3 \/ 2 * current_non_ws < coalesce

\* the span was made by a merge
IsMerged(span) == \A i \in DOMAIN filled_chunks : filled_chunks[i] # span

\* C25: in the left-to-right coalescing pass the current span is merged with
\* the next span if and only if the three conditions hold; hence a span with
\* at least `coalesce` non-whitespace bytes is never extended and every span
\* made by a merge is shorter than 1.5 x MAX_CHARS
C25_MergedIffConditionsHold ==
    pc = "coalesced" =>
        /\ coalesced_chunks # <<>>
        /\ coalesced_chunks[1].start = filled_chunks[1].start
        /\ Last(coalesced_chunks).end = Last(filled_chunks).end
        /\ \A i \in DOMAIN coalesced_chunks : \A j \in DOMAIN filled_chunks :
              LET c == coalesced_chunks[i]
                  f == filled_chunks[j]
              IN /\ (c.start < f.start /\ f.start < c.end) =>
                       /\ f.end <= c.end
                       /\ MergeConditions(Span(c.start, f.start), f)
                 /\ (f.start = c.end) =>
                       /\ i < Len(coalesced_chunks)
                       /\ coalesced_chunks[i + 1].start = f.start
                       /\ ~MergeConditions(c, f)
                 /\ (f.start = c.start
                     /\ non_whitespace_len(extract_bytes(f, code_content)) >= coalesce) => c = f
        /\ \A i \in DOMAIN coalesced_chunks :
              IsMerged(coalesced_chunks[i]) => 2 * SpanLen(coalesced_chunks[i]) < 3 * MAX_CHARS

\* C25 witness: one span was made by a merge, one merge was refused for the
\* length alone, and one for the newlines alone
C25_Witness ==
    /\ pc = "coalesced"
    /\ \E i \in DOMAIN coalesced_chunks : IsMerged(coalesced_chunks[i])
    /\ \E i \in 1 .. (Len(coalesced_chunks) - 1) :
          LET c == coalesced_chunks[i]
              f == coalesced_chunks[i + 1]
          IN /\ non_whitespace_len(extract_bytes(c, code_content)) < coalesce
             /\ 2 * (SpanLen(c) + SpanLen(f)) >= 3 * MAX_CHARS

\* C25 witness: a merge refused because it would add three newlines to a span
\* that is not tiny
C25_WitnessNewlines ==
    /\ pc = "coalesced"
    /\ \E i \in 1 .. (Len(coalesced_chunks) - 1) : \E j \in DOMAIN filled_chunks :
          LET c == coalesced_chunks[i]
              f == filled_chunks[j]
          IN /\ f.start = c.end
             /\ non_whitespace_len(extract_bytes(c, code_content)) < coalesce
             /\ 2 * (SpanLen(c) + SpanLen(f)) < 3 * MAX_CHARS
             /\ ~MergeConditions(c, f)

\* the container definitions that lie inside the span and have no container
\* above them
TopLevelContainersIn(span) ==
    { n \in DOMAIN tree :
        /\ tree[n].type \in language_config.containers
        /\ span.start <= tree[n].start_byte /\ tree[n].end_byte <= span.end
        /\ \A a \in SeqToSet(Ancestors(tree, n)) : tree[a].type \notin language_config.containers }

\* every non-whitespace byte of the span belongs to an import statement
OnlyImportStatements(span) ==
    \A b \in (span.start + 1) .. span.end :
        code_content[b] \in WhitespaceChars
        \/ \E n \in DOMAIN tree : /\ tree[n].type \in language_config.imports
                                  /\ tree[n].start_byte < b /\ b <= tree[n].end_byte

\* what the description of a chunk without enclosing container should be
ExpectedTopLevelDescriptions(span) ==
    IF TopLevelContainersIn(span) # {}
    THEN { Description("Top-level", <<[type |-> tree[n].type,
                                       name |-> container_name(tree, n, code_content)]>>) :
             n \in TopLevelContainersIn(span) }
    ELSE IF OnlyImportStatements(span)
    THEN { Description("Chunk containing primarily imports", <<>>) }
    ELSE { Description("Top-level code chunk", <<>>) }

\* C26: for a tree-sitter chunk with no enclosing container, the
\* relational_description is "Top-level <type> '<name>'" when the chunk is a
\* container definition (also with import lines attached), "Chunk containing
\* primarily imports" when it holds only import statements, and "Top-level
\* code chunk" otherwise
C26_TopLevelDescription ==
    TreeSitterDone =>
        \A i \in DOMAIN chunks :
            EnclosingContainers(chunks[i].byte_span) \subseteq TopLevelContainersIn(chunks[i].byte_span)
              => chunks[i].metadata.relational_description
                    \in ExpectedTopLevelDescriptions(chunks[i].byte_span)

\* C26, on the file of the claim only: the single chunk of the file with
\* `import os` and `def greet` is described as the function greet
C26_GreetIsTopLevelFunction ==
    (TreeSitterDone /\ code_content = P1_src /\ Len(chunks) = 1) =>
        chunks[1].metadata.relational_description =
            Description("Top-level", <<[type |-> "function_definition", name |-> <<"g", "r", "e", "e", "t">>]>>)

\* the contents of the first i chunks of a list, joined
JoinedUpTo(chunk_list, i) == Concat([j \in 1..i |-> chunk_list[j].content])

\* the whitespace handoff pass runs in this step
HandoffStep == pc = "assembled" /\ pc' = "done"

\* C27: the whitespace handoff pass only re-partitions content: each chunk
\* but the last loses its maximal trailing run of spaces and tabs (never a
\* newline) to the next chunk, so that afterwards no chunk but the last ends
\* with a space or tab and the joined contents are the same string; the
\* metadata and every other field are unchanged
C27_HandoffOnlyRepartitions ==
    [][HandoffStep =>
        /\ Len(chunks') = Len(chunks)
        /\ \A i \in DOMAIN chunks :
              chunks'[i] = [chunks[i] EXCEPT !.content = chunks'[i].content]
        /\ JoinedUpTo(chunks', Len(chunks)) = JoinedUpTo(chunks, Len(chunks))
        /\ \A i \in 1 .. (Len(chunks) - 1) :
              LET before == JoinedUpTo(chunks, i)
                  after == JoinedUpTo(chunks', i)
              IN /\ chunks'[i].content # <<>>
                 /\ Last(chunks'[i].content) \notin {" ", "\t"}
                 /\ Len(after) <= Len(before)
                 /\ after = SubSeq(before, 1, Len(after))
                 /\ \A k \in (Len(after) + 1) .. Len(before) : before[k] \in {" ", "\t"}
    ]_vars

\* C27 witness: the pass has moved blanks from the end of one chunk to the
\* start of the next
C27_Witness ==
    /\ TreeSitterDone
    /\ \E i \in 1 .. (Len(chunks) - 1) :
          /\ Last(extract_bytes(chunks[i].byte_span, code_content)) \in {" ", "\t"}
          /\ Last(chunks[i].content) \notin {" ", "\t"}
          /\ Head(chunks[i + 1].content) \in {" ", "\t"}
          /\ Len(chunks[i + 1].content) > SpanLen(chunks[i + 1].byte_span)

\* ---- C28, C29: the slicing loop of chunk_notebook_cells ----

\* the slicing loop has been entered for the one cell of the call: the cell is
\* not blank and longer than MAX_CHARS
LoopEntered ==
    /\ pc \in {"slicing", "cells_returned"}
    /\ cells # <<>>
    /\ ~IsBlank(cells[1].source)
    /\ Len(cells[1].source) > MAX_CHARS

\* where slice k has to end: just after the last newline of the window
\* [from, from + MAX_CHARS) when that newline lies beyond a quarter of the
\* window, at the end of the window or of the source otherwise
RequiredEnd(source, from) ==
    LET window == {p \in Max(from, 0) .. (Min(from + MAX_CHARS, Len(source)) - 1) :
                     source[p + 1] = "\n"}
        last_newline == CHOOSE p \in window : \A q \in window : p >= q
    IN IF window # {} /\ 4 * (last_newline - from) > MAX_CHARS
       THEN last_newline + 1
       ELSE Min(from + MAX_CHARS, Len(source))

\* slice k begins where slice k - 1 ended (the first at 0), does not run
\* backwards, is at most MAX_CHARS long and ends where RequiredEnd says
SliceFollowsRule(k) ==
    /\ byte_spans[k].start = (IF k = 1 THEN 0 ELSE byte_spans[k - 1].end)
    /\ byte_spans[k].start <= byte_spans[k].end
    /\ byte_spans[k].end - byte_spans[k].start <= MAX_CHARS
    /\ byte_spans[k].end = RequiredEnd(cells[1].source, byte_spans[k].start)

\* C28: for a cell longer than MAX_CHARS the slices taken are contiguous and
\* non-overlapping from offset 0, each at most MAX_CHARS long and ending just
\* after the last newline of its window when that newline is beyond
\* start + MAX_CHARS/4 and at min(start + MAX_CHARS, len(source)) otherwise,
\* and when the loop has ended the last slice ends at len(source)
C28_SlicesFollowRule ==
    LoopEntered =>
        /\ \A k \in 1..Len(byte_spans) : SliceFollowsRule(k)
        /\ pc = "cells_returned" => Last(byte_spans).end = Len(cells[1].source)

\* the same for a max_chars of at least one, where moreover the chunks are
\* the non-blank slices in order
SlicesFollowRuleForPositiveMaxChars ==
    (LoopEntered /\ MAX_CHARS >= 1) =>
        /\ \A k \in 1..Len(byte_spans) : SliceFollowsRule(k)
        /\ pc = "cells_returned" => Last(byte_spans).end = Len(cells[1].source)
        /\ LET texts == [k \in 1..Len(byte_spans) |->
                           Slice(cells[1].source, byte_spans[k].start, byte_spans[k].end)]
           IN [k \in 1..Len(chunks) |-> chunks[k].content]
                = SelectSeq(texts, LAMBDA t : ~IsBlank(t))

\* a cell is cut at a newline beyond the quarter and the loop has returned
SlicedAtNewline ==
    /\ LoopEntered /\ MAX_CHARS >= 1 /\ pc = "cells_returned"
    /\ \E k \in 1..Len(byte_spans) :
          /\ byte_spans[k].end < Min(byte_spans[k].start + MAX_CHARS, Len(cells[1].source))
          /\ byte_spans[k].end < Len(cells[1].source)

\* C29: each iteration of the slicing loop advances start by at least one
\* character, for every cell source and every integer max_chars
C29_EachIterationAdvances ==
    [][(pc = "slicing" /\ byte_spans' # byte_spans) => start' >= start + 1]_vars

\* ---- C30: the index after a push ----

\* every task of a non-empty batch has returned
BatchFinished == files_to_process # <<>> /\ \A i \in DOMAIN task_pc : task_pc[i] = "done"

\* C30: when process_updated_files has gathered the tasks of a push, the index
\* holds the chunks of each added or modified file of the clone exactly once,
\* whatever the interleaving of the tasks and also when a path is both in
\* added_files and in modified_files
C30_IndexHoldsEachFileOnce ==
    BatchFinished =>
        \A i \in DOMAIN files_to_process :
            files_to_process[i].exists =>
                opensearch_index[documents_of(files_to_process[i].path, repo_name)] = 1

====
